---- MODULE Spec2Model ----
(***************************************************************************)
(* Pytoon render engine: the job store, the job queue, the worker process  *)
(* (startup resume scan + dequeue loop) and the two job runners            *)
(* (_run_job_v1: segment pipeline, _run_job_v2: scene-graph pipeline).     *)
(***************************************************************************)
EXTENDS Integers, Sequences, FiniteSets, TLC

\* ------------------------------------------------------------------------
\* Bounds of the model
\* ------------------------------------------------------------------------
NumJobs == 1
NumScenes == 2
NumSegments == 2
NumWorkers == 2
MaxCrashes == 1

Jobs == 1..NumJobs
SceneIds == 1..NumScenes
SegIdx == 0..(NumSegments - 1)
Workers == 1..NumWorkers

VARIABLES
    job,        \* jobs table: job id -> JobRow (version 0 = no such row)
    scene,      \* scenes table: job id -> scene id -> SceneRow.status
    seg,        \* segments table: job id -> segment index -> SegmentRow.status
    queue,      \* the Redis list pytoon:jobs, oldest message first
    wk,         \* worker processes: program counter and locals
    crashes,    \* number of worker crashes so far
    fleet,      \* the worker processes that are deployed
    em,         \* one render_all_scenes call of the Engine Manager
    eng,        \* one generate call of an external engine adapter
    lib         \* the last call of a helper function: its inputs and result

\* The components that are modelled on their own.
comp == <<eng, lib>>

vars == <<job, scene, seg, queue, wk, crashes, fleet, em, comp>>

\* ------------------------------------------------------------------------
\* Status enumerations (models.py)
\* ------------------------------------------------------------------------
JobStatus == {"QUEUED", "PLANNING", "RENDERING_SEGMENTS", "ASSEMBLING", "DONE", "FAILED"}

JobStatusV2 == {"QUEUED", "PLANNING_SCENES", "BUILDING_TIMELINE", "RENDERING_SCENES",
                "COMPOSING", "AUDIO_ASSEMBLY", "FINALIZING", "DONE", "FAILED"}

SegmentStatus == {"PENDING", "RUNNING", "DONE", "FAILED"}

SceneStatus == {"PENDING", "RENDERING", "DONE", "FAILED", "FALLBACK"}

Archetype == {"PRODUCT_HERO", "OVERLAY"}

\* A row that does not exist.
NoRow == "NOROW"

\* JobRow column defaults (db.py): status QUEUED, progress 0.0, no uris.
\* progress_pct is kept in hundredths of a percent (10.0 -> 1000).
NoJob ==
    [version |-> 0, archetype |-> "-", status |-> "-", progress_pct |-> 0,
     output_uri |-> "None", fallback_used |-> FALSE, fallback_reason |-> "None",
     error |-> "None"]

JobRow(version, archetype) ==
    [version |-> version, archetype |-> archetype, status |-> "QUEUED",
     progress_pct |-> 0, output_uri |-> "None", fallback_used |-> FALSE,
     fallback_reason |-> "None", error |-> "None"]

\* A keyword-argument record is read field by field; an absent keyword is None.
Kw(kw, name, old) == IF name \in DOMAIN kw THEN kw[name] ELSE old

\* A call without keyword arguments.
NoKw == [nokw |-> TRUE]

\* ------------------------------------------------------------------------
\* state_machine.py
\* ------------------------------------------------------------------------
\* transition_job: missing row -> logged and skipped; otherwise the status is
\* overwritten unconditionally and every keyword that is not None is stored.
transition_job(db, job_id, new_status, kw) ==
    IF db[job_id].version = 0 THEN db
    ELSE [db EXCEPT ![job_id] =
            [@ EXCEPT !.status = new_status,
                      !.progress_pct = Kw(kw, "progress_pct", @),
                      !.output_uri = Kw(kw, "output_uri", @),
                      !.fallback_used = Kw(kw, "fallback_used", @),
                      !.fallback_reason = Kw(kw, "fallback_reason", @),
                      !.error = Kw(kw, "error", @)]]

transition_job_v2(db, job_id, new_status, kw) ==
    IF db[job_id].version = 0 THEN db
    ELSE [db EXCEPT ![job_id] =
            [@ EXCEPT !.status = new_status,
                      !.progress_pct = Kw(kw, "progress_pct", @),
                      !.output_uri = Kw(kw, "output_uri", @),
                      !.fallback_used = Kw(kw, "fallback_used", @),
                      !.fallback_reason = Kw(kw, "fallback_reason", @),
                      !.error = Kw(kw, "error", @)]]

\* transition_segment / transition_scene: missing row -> skipped.
transition_segment(rows, job_id, segment_index, new_status) ==
    IF rows[job_id][segment_index] = NoRow THEN rows
    ELSE [rows EXCEPT ![job_id][segment_index] = new_status]

\* A transition_scene that inserts the row it does not find.
transition_scene_upserts(rows, job_id, scene_id, new_status) ==
    [rows EXCEPT ![job_id][scene_id] = new_status]

\* transition_scene: missing row -> logged and skipped.
transition_scene(rows, job_id, scene_id, new_status) ==
    IF rows[job_id][scene_id] = NoRow THEN rows
    ELSE [rows EXCEPT ![job_id][scene_id] = new_status]

\* round(done / total * 100, 1), in tenths of a percent.
Round1(done, total) == (2000 * done + total) \div (2 * total)

\* compute_progress: 0.0-100.0 from the DONE segments, in hundredths.
compute_progress(rows, job_id) ==
    LET segments == {i \in SegIdx : rows[job_id][i] # NoRow}
        done == {i \in segments : rows[job_id][i] = "DONE"}
    IN IF segments = {} THEN 0
       ELSE 10 * Round1(Cardinality(done), Cardinality(segments))

all_segments_done(rows, job_id) ==
    LET segments == {i \in SegIdx : rows[job_id][i] # NoRow}
    IN (\A i \in segments : rows[job_id][i] = "DONE") /\ segments # {}

\* The indexes in S in ascending order.
RECURSIVE SortedSeq(_)
SortedSeq(S) ==
    IF S = {} THEN <<>>
    ELSE LET m == CHOOSE x \in S : \A y \in S : x <= y
         IN <<m>> \o SortedSeq(S \ {m})

\* get_incomplete_segments: PENDING, FAILED or RUNNING rows, ordered by index.
get_incomplete_segments(rows, job_id) ==
    SortedSeq({i \in SegIdx : rows[job_id][i] \in {"PENDING", "FAILED", "RUNNING"}})

\* compute_scene_progress: counts the rows whose status is DONE, in tenths.
compute_scene_progress(rows, job_id) ==
    LET scene_rows == {s \in SceneIds : rows[job_id][s] # NoRow}
        done == {s \in scene_rows : rows[job_id][s] = "DONE"}
    IN IF scene_rows = {} THEN 0
       ELSE Round1(Cardinality(done), Cardinality(scene_rows))

all_scenes_done(rows, job_id) ==
    LET scene_rows == {s \in SceneIds : rows[job_id][s] # NoRow}
    IN (\A s \in scene_rows : rows[job_id][s] = "DONE") /\ scene_rows # {}

\* ------------------------------------------------------------------------
\* engine_adapters/engine_manager.py: state of one render_all_scenes call
\* ------------------------------------------------------------------------
\* The largest Scene Graph of a call, and the largest one rendered with API
\* keys configured (every scene then has a chain of up to five engine calls).
MaxGraphScenes == 3

MaxChainScenes == 2

GraphScenes == 1..MaxGraphScenes

max_concurrent == 3

ExternalEngines == {"runway", "pika", "luma"}

EngineNames == ExternalEngines \cup {"local"}

FALLBACK_ORDER == <<"runway", "pika", "luma">>

\* SceneRenderResult(scene_id, success, engine_used, fallback_used, error)
SceneRenderResult(scene_id, success, engine_used, fallback_used, error) ==
    [scene_id |-> scene_id, success |-> success, engine_used |-> engine_used,
     fallback_used |-> fallback_used, error |-> error]

NoSceneResult == SceneRenderResult(0, FALSE, "", FALSE, "None")

\* A scene task of the fan-out: position in _render_one/_render_with_fallback,
\* engines_tried, the alternates still to try, whether assignment.prompt was
\* replaced by its rephrased form, and the chain's result.
NoTask == [pc |-> "none", engines_tried |-> <<>>, alternates |-> <<>>,
           rephrased |-> FALSE, result |-> NoSceneResult]

\* No render_all_scenes call is in progress.  completed is the order in which
\* the tasks of the gather finished.
NoRender ==
    [pc |-> "idle", scenes |-> 0, keys |-> {},
     primary |-> [i \in GraphScenes |-> "local"],
     max_concurrent |-> 0, permits |-> 0,
     task |-> [i \in GraphScenes |-> NoTask],
     completed |-> <<>>, final_results |-> <<>>]

\* ------------------------------------------------------------------------
\* engine_adapters/external_base.py, runway.py, pika.py, luma.py: state of one
\* generate call
\* ------------------------------------------------------------------------
\* EngineResult(success, error_code, moderation_flagged, rate_limited)
EngineResult(success, error_code, moderation_flagged, rate_limited) ==
    [success |-> success, error_code |-> error_code,
     moderation_flagged |-> moderation_flagged, rate_limited |-> rate_limited]

NoEngineResult == EngineResult(FALSE, "-", FALSE, FALSE)

\* No generate call is in progress.  now is time.monotonic() in seconds, t0
\* the start of the call, deadline the local of _poll, polled_at the time at
\* which _poll ended (0 before).
NoCall ==
    [pc |-> "idle", api_key |-> FALSE, now |-> 0, t0 |-> 0, deadline |-> 0,
     polled_at |-> 0, result |-> NoEngineResult]

\* No helper function has been called.
NoLib == [fn |-> "-"]

\* ------------------------------------------------------------------------
\* Worker process state
\* ------------------------------------------------------------------------
NoResult == "-"

\* A process that is not running (before start, after a crash).
Down ==
    [pc |-> "down", phase |-> "-", job_id |-> 0, stuck |-> <<>>,
     incomplete |-> <<>>, archetype |-> "-", k |-> 0,
     tasks |-> {}, results |-> [s \in SceneIds |-> NoResult],
     seen |-> [s \in SceneIds |-> NoRow]]


Init ==
    /\ job = [j \in Jobs |-> NoJob]
    /\ scene = [j \in Jobs |-> [s \in SceneIds |-> NoRow]]
    /\ seg = [j \in Jobs |-> [i \in SegIdx |-> NoRow]]
    /\ queue = <<>>
    /\ wk = [w \in Workers |-> Down]
    /\ crashes = 0
    /\ fleet = {1}
    /\ eng = NoCall
    /\ lib = NoLib
    /\ em = NoRender

\* ------------------------------------------------------------------------
\* api_orchestrator/routes.py and queue.py
\* ------------------------------------------------------------------------
\* enqueue_job: LPUSH; dequeue_job: BRPOP, so the list is first-in first-out.
enqueue_job(q, job_id) == Append(q, job_id)

\* POST /api/v1/jobs: job row QUEUED, one PENDING segment row per segment,
\* then the job id is enqueued.
create_job(j, archetype) ==
    /\ job[j].version = 0
    /\ job' = [job EXCEPT ![j] = JobRow(1, archetype)]
    /\ seg' = [seg EXCEPT ![j] = [i \in SegIdx |-> "PENDING"]]
    /\ queue' = enqueue_job(queue, j)
    /\ UNCHANGED <<scene, wk, crashes, fleet, em, comp>>

\* POST /api/v2/jobs: job row QUEUED with version 2, one PENDING scene row per
\* scene of the planned Scene Graph, then the job id is enqueued.
create_job_v2(j) ==
    /\ job[j].version = 0
    /\ job' = [job EXCEPT ![j] = JobRow(2, "SCENE_GRAPH")]
    /\ scene' = [scene EXCEPT ![j] = [s \in SceneIds |-> "PENDING"]]
    /\ queue' = enqueue_job(queue, j)
    /\ UNCHANGED <<seg, wk, crashes, fleet, em, comp>>

\* ------------------------------------------------------------------------
\* worker/main.py
\* ------------------------------------------------------------------------
\* The statuses the startup scan filters on.
ResumeStatuses == {"PLANNING", "RENDERING_SEGMENTS", "ASSEMBLING"}

\* run_job: job not found -> return; version 2 -> _run_job_v2, else
\* _run_job_v1.  The worker record after the dispatch.
run_job(rec, job_id) ==
    IF job[job_id].version = 0 THEN rec
    ELSE [rec EXCEPT !.pc = IF job[job_id].version = 2 THEN "v2_planning"
                            ELSE "v1_planning",
                     !.job_id = job_id,
                     !.archetype = job[job_id].archetype,
                     !.seen = scene[job_id]]

\* The run of a job is over (the finally block has closed the session):
\* control returns to the resume scan or to the dequeue loop.
Return(rec) ==
    [Down EXCEPT !.pc = rec.phase, !.phase = rec.phase, !.stuck = rec.stuck]

\* worker_loop start: init_db, then _resume_interrupted queries the jobs whose
\* status is one of ResumeStatuses.
Start(w) ==
    /\ w \in fleet
    /\ wk[w].pc = "down"
    /\ wk' = [wk EXCEPT ![w] =
                [Down EXCEPT !.pc = "resume", !.phase = "resume",
                             !.stuck = SortedSeq({j \in Jobs :
                                          job[j].status \in ResumeStatuses})]]
    /\ UNCHANGED <<job, scene, seg, queue, crashes, fleet, em, comp>>

\* _resume_interrupted: for job in stuck: await run_job(job.id)
ResumeNext(w) ==
    /\ wk[w].pc = "resume"
    /\ wk[w].stuck # <<>>
    /\ wk' = [wk EXCEPT ![w] =
                run_job([wk[w] EXCEPT !.stuck = Tail(@)], Head(wk[w].stuck))]
    /\ UNCHANGED <<job, scene, seg, queue, crashes, fleet, em, comp>>

\* The scan is over: "worker_started", the dequeue loop begins.
ResumeDone(w) ==
    /\ wk[w].pc = "resume"
    /\ wk[w].stuck = <<>>
    /\ wk' = [wk EXCEPT ![w] = [@ EXCEPT !.pc = "idle", !.phase = "idle"]]
    /\ UNCHANGED <<job, scene, seg, queue, crashes, fleet, em, comp>>

\* worker_loop: msg = dequeue_job(); await run_job(msg["job_id"])
Dequeue(w) ==
    /\ wk[w].pc = "idle"
    /\ queue # <<>>
    /\ queue' = Tail(queue)
    /\ wk' = [wk EXCEPT ![w] = run_job(wk[w], Head(queue))]
    /\ UNCHANGED <<job, scene, seg, crashes, fleet, em, comp>>

\* The worker process dies (kill, power loss): its locals are lost, the
\* committed rows and the queue stay.
Crash(w) ==
    /\ wk[w].pc # "down"
    /\ crashes < MaxCrashes
    /\ crashes' = crashes + 1
    /\ wk' = [wk EXCEPT ![w] = Down]
    /\ UNCHANGED <<job, scene, seg, queue, fleet, em, comp>>

\* ------------------------------------------------------------------------
\* worker/runner.py: _run_job_v2
\* ------------------------------------------------------------------------
\* SceneRenderResult as the runner reads it.
Success(r) == r \in {"ok", "fallback"}
FallbackUsed(r) == r = "fallback"

\* except Exception: transition_job_v2(FAILED, error=str(exc)); finally.
V2Except(w) ==
    /\ job' = transition_job_v2(job, wk[w].job_id, "FAILED", [error |-> "set"])
    /\ wk' = [wk EXCEPT ![w] = Return(@)]

\* transition_job_v2(PLANNING_SCENES); the Scene Graph is loaded.
V2PlanningScenes(w) ==
    /\ wk[w].pc = "v2_planning"
    /\ job' = transition_job_v2(job, wk[w].job_id, "PLANNING_SCENES", NoKw)
    /\ wk' = [wk EXCEPT ![w].pc = "v2_timeline"]
    /\ UNCHANGED <<scene, seg, queue, crashes, fleet, em, comp>>

\* transition_job_v2(BUILDING_TIMELINE, progress_pct=10.0)
V2BuildingTimeline(w) ==
    /\ wk[w].pc = "v2_timeline"
    /\ job' = transition_job_v2(job, wk[w].job_id, "BUILDING_TIMELINE",
                                [progress_pct |-> 1000])
    /\ wk' = [wk EXCEPT ![w].pc = "v2_timeline_built"]
    /\ UNCHANGED <<scene, seg, queue, crashes, fleet, em, comp>>

\* build_timeline; transition_job_v2(BUILDING_TIMELINE, progress_pct=20.0,
\* timeline_json=...)
V2TimelineBuilt(w) ==
    /\ wk[w].pc = "v2_timeline_built"
    /\ job' = transition_job_v2(job, wk[w].job_id, "BUILDING_TIMELINE",
                                [progress_pct |-> 2000])
    /\ wk' = [wk EXCEPT ![w].pc = "v2_persist"]
    /\ UNCHANGED <<scene, seg, queue, crashes, fleet, em, comp>>

\* timeline.json and scene_graph.json are written to the storage root (an
\* I/O error raises into the except block), then
\* transition_job_v2(RENDERING_SCENES, progress_pct=25.0).
V2RenderingScenes(w) ==
    /\ wk[w].pc = "v2_persist"
    /\ \E io_ok \in BOOLEAN :
         IF io_ok
         THEN /\ job' = transition_job_v2(job, wk[w].job_id, "RENDERING_SCENES",
                                          [progress_pct |-> 2500])
              /\ wk' = [wk EXCEPT ![w].pc = "v2_mark", ![w].k = 1]
         ELSE V2Except(w)
    /\ UNCHANGED <<scene, seg, queue, crashes, fleet, em, comp>>

\* for scene in scene_graph.scenes: transition_scene(RENDERING); after the
\* last one render_all_scenes creates one task per scene of the graph.
V2MarkRendering(w) ==
    /\ wk[w].pc = "v2_mark"
    /\ scene' = transition_scene(scene, wk[w].job_id, wk[w].k, "RENDERING")
    /\ wk' = [wk EXCEPT ![w] =
                IF wk[w].k < NumScenes THEN [@ EXCEPT !.k = @ + 1]
                ELSE [@ EXCEPT !.pc = "v2_render", !.k = 0, !.tasks = SceneIds]]
    /\ UNCHANGED <<job, seg, queue, crashes, fleet, em, comp>>

\* _on_scene_complete: the status the callback stores for a result.
OnSceneCompleteStatus(r) ==
    LET status == IF Success(r) THEN "DONE" ELSE "FAILED"
        fallback_status == IF FallbackUsed(r) THEN "FALLBACK" ELSE status
    IN IF FallbackUsed(r) THEN fallback_status ELSE status

\* One scene task of render_all_scenes finishes.  _render_with_fallback
\* returns a successful result (primary engine, or a fallback level) and the
\* completion callback stores it and the job progress; or the task raises
\* and asyncio.gather keeps the exception (no callback).
V2SceneTask(w, s) ==
    /\ wk[w].pc = "v2_render"
    /\ s \in wk[w].tasks
    /\ wk[w].results[s] = NoResult
    /\ \E r \in {"ok", "fallback", "error"} :
         /\ wk' = [wk EXCEPT ![w].results[s] = r]
         /\ IF r = "error"
            THEN UNCHANGED <<job, scene>>
            ELSE LET rows == transition_scene(scene, wk[w].job_id, s,
                                               OnSceneCompleteStatus(r))
                     pct == 2500 + compute_scene_progress(rows, wk[w].job_id) * 5
                 IN /\ scene' = rows
                    /\ job' = transition_job_v2(job, wk[w].job_id,
                                 "RENDERING_SCENES", [progress_pct |-> pct])
    /\ UNCHANGED <<seg, queue, crashes, fleet, em, comp>>

\* asyncio.gather has every result; exceptions become
\* SceneRenderResult(success=False).
V2Gathered(w) ==
    /\ wk[w].pc = "v2_render"
    /\ \A s \in wk[w].tasks : wk[w].results[s] # NoResult
    /\ wk' = [wk EXCEPT ![w].pc = "v2_process", ![w].k = 1]
    /\ UNCHANGED <<job, scene, seg, queue, crashes, fleet, em, comp>>

\* for result in render_results: a successful result's clip is processed and
\* the scene row is set to DONE with the processed path; a processing error
\* is logged and skipped.
V2ProcessClip(w) ==
    /\ wk[w].pc = "v2_process"
    /\ \E processed \in BOOLEAN :
         scene' = IF Success(wk[w].results[wk[w].k]) /\ processed
                  THEN transition_scene(scene, wk[w].job_id, wk[w].k, "DONE")
                  ELSE scene
    /\ wk' = [wk EXCEPT ![w] =
                IF wk[w].k < NumScenes THEN [@ EXCEPT !.k = @ + 1]
                ELSE [@ EXCEPT !.pc = "v2_compose", !.k = 0]]
    /\ UNCHANGED <<job, seg, queue, crashes, fleet, em, comp>>

\* if all_scenes_done: transition_job_v2(COMPOSING, progress_pct=80.0)
\* else: transition_job_v2(FAILED, error="Not all scenes completed")
V2Composing(w) ==
    /\ wk[w].pc = "v2_compose"
    /\ IF all_scenes_done(scene, wk[w].job_id)
       THEN /\ job' = transition_job_v2(job, wk[w].job_id, "COMPOSING",
                                        [progress_pct |-> 8000])
            /\ wk' = [wk EXCEPT ![w].pc = "v2_assemble"]
       ELSE /\ job' = transition_job_v2(job, wk[w].job_id, "FAILED",
                                        [error |-> "set"])
            /\ wk' = [wk EXCEPT ![w] = Return(@)]
    /\ UNCHANGED <<scene, seg, queue, crashes, fleet, em, comp>>

\* assemble_job_v2 returns -> transition_job_v2(DONE, 100.0, output_uri);
\* it raises -> transition_job_v2(FAILED, error="Assembly error: ...").
V2Assemble(w) ==
    /\ wk[w].pc = "v2_assemble"
    /\ \E assembled \in BOOLEAN :
         job' = IF assembled
                THEN transition_job_v2(job, wk[w].job_id, "DONE",
                        [progress_pct |-> 10000, output_uri |-> "output"])
                ELSE transition_job_v2(job, wk[w].job_id, "FAILED",
                        [error |-> "set"])
    /\ wk' = [wk EXCEPT ![w] = Return(@)]
    /\ UNCHANGED <<scene, seg, queue, crashes, fleet, em, comp>>

RunJobV2(w) ==
    \/ V2PlanningScenes(w)
    \/ V2BuildingTimeline(w)
    \/ V2TimelineBuilt(w)
    \/ V2RenderingScenes(w)
    \/ V2MarkRendering(w)
    \/ \E s \in SceneIds : V2SceneTask(w, s)
    \/ V2Gathered(w)
    \/ V2ProcessClip(w)
    \/ V2Composing(w)
    \/ V2Assemble(w)

\* ------------------------------------------------------------------------
\* worker/runner.py: _run_job_v1
\* ------------------------------------------------------------------------
\* except Exception: last-resort template, transition_job(FAILED,
\* output_uri=template, ...); when generate_template_video raises too the
\* inner except passes and nothing is stored.  Then finally.
V1Except(w) ==
    /\ \E template_ok \in BOOLEAN :
         job' = IF template_ok
                THEN transition_job(job, wk[w].job_id, "FAILED",
                        [output_uri |-> "template", error |-> "set",
                         fallback_used |-> TRUE, fallback_reason |-> "set"])
                ELSE job
    /\ wk' = [wk EXCEPT ![w] = Return(@)]

\* transition_job(PLANNING)
V1Planning(w) ==
    /\ wk[w].pc = "v1_planning"
    /\ job' = transition_job(job, wk[w].job_id, "PLANNING", NoKw)
    /\ wk' = [wk EXCEPT ![w].pc = "v1_rendering"]
    /\ UNCHANGED <<scene, seg, queue, crashes, fleet, em, comp>>

\* transition_job(RENDERING_SEGMENTS); incomplete = get_incomplete_segments
V1RenderingSegments(w) ==
    /\ wk[w].pc = "v1_rendering"
    /\ job' = transition_job(job, wk[w].job_id, "RENDERING_SEGMENTS", NoKw)
    /\ LET incomplete == get_incomplete_segments(seg, wk[w].job_id)
       IN wk' = [wk EXCEPT ![w].incomplete = incomplete,
                           ![w].pc = IF incomplete = <<>> THEN "v1_assembling"
                                     ELSE "v1_seg_running"]
    /\ UNCHANGED <<scene, seg, queue, crashes, fleet, em, comp>>

\* _render_one_segment begins: transition_segment(RUNNING)
V1SegmentRunning(w) ==
    /\ wk[w].pc = "v1_seg_running"
    /\ seg' = transition_segment(seg, wk[w].job_id, Head(wk[w].incomplete), "RUNNING")
    /\ wk' = [wk EXCEPT ![w].pc = "v1_seg_render"]
    /\ UNCHANGED <<job, scene, queue, crashes, fleet, em, comp>>

\* _render_one_segment ends: the adapter's result is stored as DONE or FAILED
\* (no engine available is FAILED too), or the adapter raises.  A failed
\* PRODUCT_HERO segment is rendered once more as OVERLAY; any other failed
\* segment gets the template video.
V1SegmentRendered(w) ==
    /\ wk[w].pc = "v1_seg_render"
    /\ \E outcome \in {"ok", "failed", "raise"} :
         CASE outcome = "ok" ->
                /\ seg' = transition_segment(seg, wk[w].job_id,
                                             Head(wk[w].incomplete), "DONE")
                /\ wk' = [wk EXCEPT ![w].pc = "v1_seg_progress"]
                /\ UNCHANGED job
           [] outcome = "failed" ->
                /\ seg' = transition_segment(seg, wk[w].job_id,
                                             Head(wk[w].incomplete), "FAILED")
                /\ wk' = [wk EXCEPT ![w] =
                            IF wk[w].archetype = "PRODUCT_HERO"
                            THEN [@ EXCEPT !.archetype = "OVERLAY",
                                           !.pc = "v1_seg_running"]
                            ELSE [@ EXCEPT !.pc = "v1_seg_template"]]
                /\ UNCHANGED job
           [] outcome = "raise" ->
                /\ V1Except(w)
                /\ UNCHANGED seg
    /\ UNCHANGED <<scene, queue, crashes, fleet, em, comp>>

\* Total failure: generate_template_video, transition_segment(DONE,
\* engine_used="template_fallback").
V1SegmentTemplate(w) ==
    /\ wk[w].pc = "v1_seg_template"
    /\ \E template_ok \in BOOLEAN :
         IF template_ok
         THEN /\ seg' = transition_segment(seg, wk[w].job_id,
                                           Head(wk[w].incomplete), "DONE")
              /\ wk' = [wk EXCEPT ![w].pc = "v1_seg_progress"]
              /\ UNCHANGED job
         ELSE /\ V1Except(w)
              /\ UNCHANGED seg
    /\ UNCHANGED <<scene, queue, crashes, fleet, em, comp>>

\* pct = compute_progress; transition_job(RENDERING_SEGMENTS, progress_pct=pct)
V1SegmentProgress(w) ==
    /\ wk[w].pc = "v1_seg_progress"
    /\ job' = transition_job(job, wk[w].job_id, "RENDERING_SEGMENTS",
                  [progress_pct |-> compute_progress(seg, wk[w].job_id)])
    /\ wk' = [wk EXCEPT ![w].incomplete = Tail(@),
                        ![w].pc = IF Tail(wk[w].incomplete) = <<>>
                                  THEN "v1_assembling" ELSE "v1_seg_running"]
    /\ UNCHANGED <<scene, seg, queue, crashes, fleet, em, comp>>

\* if all_segments_done: transition_job(ASSEMBLING, progress_pct=90.0)
\* else: transition_job(FAILED, error=..., fallback_used=True)
V1Assembling(w) ==
    /\ wk[w].pc = "v1_assembling"
    /\ IF all_segments_done(seg, wk[w].job_id)
       THEN /\ job' = transition_job(job, wk[w].job_id, "ASSEMBLING",
                                     [progress_pct |-> 9000])
            /\ wk' = [wk EXCEPT ![w].pc = "v1_assemble"]
       ELSE /\ job' = transition_job(job, wk[w].job_id, "FAILED",
                                     [error |-> "set", fallback_used |-> TRUE])
            /\ wk' = [wk EXCEPT ![w] = Return(@)]
    /\ UNCHANGED <<scene, seg, queue, crashes, fleet, em, comp>>

\* _assemble returns -> transition_job(DONE, 100.0, output_uri); it raises ->
\* template video, transition_job(DONE, 100.0, output_uri=template,
\* fallback_used=True, fallback_reason=...); the template raises -> except.
V1Assemble(w) ==
    /\ wk[w].pc = "v1_assemble"
    /\ \E outcome \in {"assembled", "template", "raise"} :
         CASE outcome = "assembled" ->
                /\ job' = transition_job(job, wk[w].job_id, "DONE",
                             [progress_pct |-> 10000, output_uri |-> "output"])
                /\ wk' = [wk EXCEPT ![w] = Return(@)]
           [] outcome = "template" ->
                /\ job' = transition_job(job, wk[w].job_id, "DONE",
                             [progress_pct |-> 10000, output_uri |-> "template",
                              fallback_used |-> TRUE, fallback_reason |-> "set"])
                /\ wk' = [wk EXCEPT ![w] = Return(@)]
           [] outcome = "raise" -> V1Except(w)
    /\ UNCHANGED <<scene, seg, queue, crashes, fleet, em, comp>>

RunJobV1(w) ==
    \/ V1Planning(w)
    \/ V1RenderingSegments(w)
    \/ V1SegmentRunning(w)
    \/ V1SegmentRendered(w)
    \/ V1SegmentTemplate(w)
    \/ V1SegmentProgress(w)
    \/ V1Assembling(w)
    \/ V1Assemble(w)

\* ------------------------------------------------------------------------
\* Specifications
\* ------------------------------------------------------------------------
Next ==
    \/ \E j \in Jobs, a \in Archetype : create_job(j, a)
    \/ \E j \in Jobs : create_job_v2(j)
    \/ \E w \in Workers : Start(w)
    \/ \E w \in Workers : ResumeNext(w)
    \/ \E w \in Workers : ResumeDone(w)
    \/ \E w \in Workers : Dequeue(w)
    \/ \E w \in Workers : Crash(w)
    \/ \E w \in Workers : RunJobV1(w)
    \/ \E w \in Workers : RunJobV2(w)

\* One worker process (restarted after a crash).
Spec == Init /\ [][Next]_vars

\* Two worker processes are deployed side by side.
InitWorkers ==
    /\ job = [j \in Jobs |-> NoJob]
    /\ scene = [j \in Jobs |-> [s \in SceneIds |-> NoRow]]
    /\ seg = [j \in Jobs |-> [i \in SegIdx |-> NoRow]]
    /\ queue = <<>>
    /\ wk = [w \in Workers |-> Down]
    /\ crashes = 0
    /\ fleet = {1, 2}
    /\ eng = NoCall
    /\ lib = NoLib
    /\ em = NoRender

SpecWorkers == InitWorkers /\ [][Next]_vars

\* The id of an interrupted job is put on the queue again (enqueue_job takes
\* any job id), so that run_job runs a second time for it: the run the Job
\* Runner's design calls a resume.
Requeue(j) ==
    /\ job[j].version # 0
    /\ job[j].status \notin {"QUEUED", "DONE", "FAILED"}
    /\ \A w \in Workers : wk[w].job_id # j /\ \A n \in 1..Len(wk[w].stuck) : wk[w].stuck[n] # j
    /\ \A n \in 1..Len(queue) : queue[n] # j
    /\ queue' = enqueue_job(queue, j)
    /\ UNCHANGED <<job, scene, seg, wk, crashes, fleet, em, comp>>

NextRerun ==
    \/ Next
    \/ \E j \in Jobs : Requeue(j)

SpecRerun == Init /\ [][NextRerun]_vars

\* ------------------------------------------------------------------------
\* engine_adapters/engine_manager.py: render_all_scenes
\* ------------------------------------------------------------------------
\* An availability check that takes every engine as configured.
is_engine_available_always(keys, name) == TRUE

\* _is_engine_available: the engine's API key is configured.
is_engine_available(keys, name) == name \in keys

\* A chain that keeps the primary among the alternates.
get_fallback_chain_keeps_primary(keys, primary) ==
    LET alternate(e) == is_engine_available(keys, e)
    IN SelectSeq(FALLBACK_ORDER, alternate) \o <<"local">>

\* _get_fallback_chain: the configured chain without the primary and without
\* unavailable engines, always ending with "local".
get_fallback_chain(keys, primary) ==
    LET alternate(e) == e # primary /\ is_engine_available(keys, e)
    IN SelectSeq(FALLBACK_ORDER, alternate) \o <<"local">>

\* What one await of engine.generate followed by validate_clip can give:
\* a clip that validates, a clip that fails validation, an error result, or
\* an error result with moderation_flagged.
GenerateOutcomes == {"valid", "invalid", "error", "moderation"}

\* A chain that takes every clip an engine hands back, validated or not.
clip_accepted_unvalidated(outcome) == outcome \in {"valid", "invalid"}

\* "result.success and result.clip_path" and validate_clip(...).valid: the
\* clip of an attempt is taken as the scene's clip.
clip_accepted(outcome) == outcome = "valid"

\* _render_one has left its "async with semaphore" block.
TaskFinished == {"returned", "raised"}

\* render_all_scenes(scene_graph, ..., max_concurrent=limit): one assignment
\* and one task per scene, all waiting for asyncio.Semaphore(max_concurrent).
render_all_scenes(n, primary, keys, limit) ==
    [pc |-> "gather", scenes |-> n, keys |-> keys, primary |-> primary,
     max_concurrent |-> limit, permits |-> limit,
     task |-> [i \in GraphScenes |->
                 IF i <= n THEN [NoTask EXCEPT !.pc = "wait"] ELSE NoTask],
     completed |-> <<>>, final_results |-> <<>>]

\* _render_one after _render_with_fallback returned: on_scene_complete(result),
\* then the task returns the result; a callback that raises makes the task
\* raise.  Either way the locals of the chain are gone.
render_one_complete(t, result, called) ==
    IF called
    THEN [NoTask EXCEPT !.pc = "returned", !.result = result]
    ELSE [NoTask EXCEPT !.pc = "raised"]

\* _render_local_fallback -> render_scene_stub -> run_ffmpeg: returns the clip
\* path, or raises when ffmpeg exits non-zero or times out.  The call is
\* synchronous, the task runs on to the callback without yielding.
render_local_fallback(t, scene_id, fallback_used, rendered, called) ==
    IF rendered
    THEN render_one_complete(t,
             SceneRenderResult(scene_id, TRUE, "local", fallback_used, "None"),
             called)
    ELSE [NoTask EXCEPT !.pc = "raised"]

\* Level 2 loop head: "local" ends the loop (Level 3 follows, "local" is
\* appended to engines_tried); any other alternate is invoked and awaited.
level2_next(t, scene_id, rendered, called) ==
    IF Head(t.alternates) = "local"
    THEN render_local_fallback([t EXCEPT !.engines_tried = Append(@, "local")],
                               scene_id, TRUE, rendered, called)
    ELSE [t EXCEPT !.pc = "level2",
                   !.engines_tried = Append(@, Head(t.alternates))]

\* Level 2 entry: alternates = _get_fallback_chain(primary).
level2_start(t, scene_id, keys, primary, rendered, called) ==
    level2_next([t EXCEPT !.alternates = get_fallback_chain(keys, primary)],
                scene_id, rendered, called)

\* A task that holds the semaphore moves on to its next await or finishes
\* (the semaphore is released on return and on raise).
TaskStep(i, t) ==
    em' = [em EXCEPT !.task[i] = t,
                     !.permits = IF t.pc \in TaskFinished THEN @ + 1 ELSE @,
                     !.completed = IF t.pc \in TaskFinished
                                   THEN Append(@, i) ELSE @]

\* A semaphore that hands out a permit whether or not one is left.
semaphore_never_locked(permits) == FALSE

\* asyncio.Semaphore.locked(): no permit is left, acquire() has to wait.
semaphore_locked(permits) == permits = 0

\* A chain start without the shortcut for "local" assignments: the configured
\* external engines are tried before the local renderer.
chain_start_tries_externals(t, scene_id, keys, primary, rendered, called) ==
    level2_start(t, scene_id, keys, primary, rendered, called)

\* _render_with_fallback up to its first await: a "local" assignment goes
\* straight to the local renderer; an available primary is invoked (Level 1);
\* otherwise Level 2 starts with the fallback chain.
chain_start(t, scene_id, keys, primary, rendered, called) ==
    IF primary = "local"
    THEN render_local_fallback(t, scene_id, FALSE, rendered, called)
    ELSE IF is_engine_available(keys, primary)
    THEN [t EXCEPT !.pc = "level1", !.engines_tried = Append(@, primary)]
    ELSE level2_start(t, scene_id, keys, primary, rendered, called)

\* _render_one: async with semaphore, then the chain up to its first await.
TaskStart(i) ==
    /\ em.pc = "gather"
    /\ em.task[i].pc = "wait"
    /\ ~semaphore_locked(em.permits)
    /\ \E rendered \in BOOLEAN, called \in BOOLEAN :
         LET t == chain_start(em.task[i], i, em.keys, em.primary[i],
                              rendered, called)
         IN em' = [em EXCEPT !.task[i] = t,
                             !.permits = IF t.pc \in TaskFinished THEN @ ELSE @ - 1,
                             !.completed = IF t.pc \in TaskFinished
                                           THEN Append(@, i) ELSE @]
    /\ UNCHANGED <<job, scene, seg, queue, wk, crashes, fleet, comp>>

\* A Level 1 that retries the primary after any failed attempt.
level1_result_retries_any_failure(t, scene_id, keys, primary, outcome, rendered, called) ==
    IF outcome = "valid"
    THEN render_one_complete(t,
             SceneRenderResult(scene_id, TRUE, primary, FALSE, "None"), called)
    ELSE [t EXCEPT !.pc = "retry", !.rephrased = TRUE]

\* Level 1, the primary returned: a valid clip is returned with
\* fallback_used=False; a moderation rejection is rephrased and retried on
\* the same engine; anything else falls to Level 2.
level1_result(t, scene_id, keys, primary, outcome, rendered, called) ==
    CASE clip_accepted(outcome) ->
           render_one_complete(t,
               SceneRenderResult(scene_id, TRUE, primary, FALSE, "None"), called)
      [] outcome = "moderation" -> [t EXCEPT !.pc = "retry", !.rephrased = TRUE]
      [] OTHER -> level2_start(t, scene_id, keys, primary, rendered, called)

Level1Result(i) ==
    /\ em.task[i].pc = "level1"
    /\ \E outcome \in GenerateOutcomes, rendered \in BOOLEAN, called \in BOOLEAN :
         TaskStep(i, level1_result(em.task[i], i, em.keys, em.primary[i],
                                   outcome, rendered, called))
    /\ UNCHANGED <<job, scene, seg, queue, wk, crashes, fleet, comp>>

\* A retry whose clip is thrown away: Level 2 starts whatever it returned.
retry_result_ignores_clip(t, scene_id, keys, primary, outcome, rendered, called) ==
    level2_start(t, scene_id, keys, primary, rendered, called)

\* The single retry after rephrase_for_moderation returned: a valid clip is
\* returned with fallback_used=False, anything else falls to Level 2.
retry_result(t, scene_id, keys, primary, outcome, rendered, called) ==
    IF clip_accepted(outcome)
    THEN render_one_complete(t,
             SceneRenderResult(scene_id, TRUE, primary, FALSE, "None"), called)
    ELSE level2_start(t, scene_id, keys, primary, rendered, called)

RetryResult(i) ==
    /\ em.task[i].pc = "retry"
    /\ \E outcome \in GenerateOutcomes, rendered \in BOOLEAN, called \in BOOLEAN :
         TaskStep(i, retry_result(em.task[i], i, em.keys, em.primary[i],
                                  outcome, rendered, called))
    /\ UNCHANGED <<job, scene, seg, queue, wk, crashes, fleet, comp>>

\* A Level 2 that gives up on the first alternate that fails: the failed
\* attempt is returned as the scene's result instead of moving on.
level2_result_gives_up(t, scene_id, outcome, rendered, called) ==
    render_one_complete(t,
        SceneRenderResult(scene_id, outcome = "valid", Head(t.alternates), TRUE,
                          IF outcome = "valid" THEN "None" ELSE "set"),
        called)

\* The alternate returned: a valid clip is the scene's result with
\* fallback_used=True, anything else moves on to the next alternate.
level2_result(t, scene_id, outcome, rendered, called) ==
    IF clip_accepted(outcome)
    THEN render_one_complete(t,
             SceneRenderResult(scene_id, TRUE, Head(t.alternates), TRUE, "None"),
             called)
    ELSE level2_next([t EXCEPT !.alternates = Tail(@)], scene_id, rendered, called)

Level2Result(i) ==
    /\ em.task[i].pc = "level2"
    /\ \E outcome \in GenerateOutcomes, rendered \in BOOLEAN, called \in BOOLEAN :
         TaskStep(i, level2_result(em.task[i], i, outcome, rendered, called))
    /\ UNCHANGED <<job, scene, seg, queue, wk, crashes, fleet, comp>>

\* A gather that hands the outcomes back in the order of completion.
gather_as_completed(task, n, completed) == [k \in 1..n |-> task[completed[k]]]

\* asyncio.gather(*tasks, return_exceptions=True): the outcomes of the tasks
\* in the order of the awaitables, a raised exception being an outcome.
gather(task, n, completed) == [i \in 1..n |-> task[i]]

\* A loop that leaves an exception in the list as it came.
final_result_unconverted(i, r) == r.result

\* "Convert exceptions to failed results": an exception becomes
\* SceneRenderResult(scene_id=assignments[i].scene_id, success=False,
\* error=str(r)), a result is appended as it is.
final_result(i, r) ==
    IF r.pc = "raised"
    THEN SceneRenderResult(i, FALSE, "", FALSE, "set")
    ELSE r.result

\* await asyncio.gather(...) is complete and the results are converted;
\* render_all_scenes returns final_results.
Gather ==
    /\ em.pc = "gather"
    /\ \A i \in 1..em.scenes : em.task[i].pc \in TaskFinished
    /\ LET results == gather(em.task, em.scenes, em.completed)
       IN em' = [em EXCEPT !.pc = "returned",
                           !.final_results =
                               [i \in 1..em.scenes |-> final_result(i, results[i])]]
    /\ UNCHANGED <<job, scene, seg, queue, wk, crashes, fleet, comp>>

\* A render_all_scenes call on any Scene Graph of 1..MaxChainScenes scenes,
\* any engine assignment and any set of configured API keys.
InitRender ==
    /\ job = [j \in Jobs |-> NoJob]
    /\ scene = [j \in Jobs |-> [s \in SceneIds |-> NoRow]]
    /\ seg = [j \in Jobs |-> [i \in SegIdx |-> NoRow]]
    /\ queue = <<>>
    /\ wk = [w \in Workers |-> Down]
    /\ crashes = 0
    /\ fleet = {}
    /\ eng = NoCall
    /\ lib = NoLib
    /\ \E n \in 1..MaxChainScenes, primary \in [GraphScenes -> EngineNames],
          keys \in SUBSET ExternalEngines :
         /\ \A i \in GraphScenes : i > n => primary[i] = "local"
         /\ em = render_all_scenes(n, primary, keys, max_concurrent)

NextRender ==
    \/ \E i \in GraphScenes : TaskStart(i)
    \/ \E i \in GraphScenes : Level1Result(i)
    \/ \E i \in GraphScenes : RetryResult(i)
    \/ \E i \in GraphScenes : Level2Result(i)
    \/ Gather


SpecRender == InitRender /\ [][NextRender]_vars

\* Every scene task that can take a step eventually takes one (the event
\* loop runs every ready task; engine calls return within their deadline).
SpecRenderFair == SpecRender /\ WF_vars(NextRender)

\* A render_all_scenes call whose caller also chooses max_concurrent, from 1
\* up to the default.
InitFanOut ==
    /\ job = [j \in Jobs |-> NoJob]
    /\ scene = [j \in Jobs |-> [s \in SceneIds |-> NoRow]]
    /\ seg = [j \in Jobs |-> [i \in SegIdx |-> NoRow]]
    /\ queue = <<>>
    /\ wk = [w \in Workers |-> Down]
    /\ crashes = 0
    /\ fleet = {}
    /\ eng = NoCall
    /\ lib = NoLib
    /\ \E n \in 1..MaxChainScenes, primary \in [GraphScenes -> EngineNames],
          keys \in SUBSET ExternalEngines, limit \in 1..max_concurrent :
         /\ \A i \in GraphScenes : i > n => primary[i] = "local"
         /\ em = render_all_scenes(n, primary, keys, limit)

SpecFanOut == InitFanOut /\ [][NextRender]_vars

\* A render_all_scenes call on any Scene Graph of 1..MaxGraphScenes scenes:
\* the larger graphs while no API key is configured, the others with any set
\* of configured keys.
InitGraphs ==
    /\ job = [j \in Jobs |-> NoJob]
    /\ scene = [j \in Jobs |-> [s \in SceneIds |-> NoRow]]
    /\ seg = [j \in Jobs |-> [i \in SegIdx |-> NoRow]]
    /\ queue = <<>>
    /\ wk = [w \in Workers |-> Down]
    /\ crashes = 0
    /\ fleet = {}
    /\ eng = NoCall
    /\ lib = NoLib
    /\ \E n \in GraphScenes, primary \in [GraphScenes -> EngineNames],
          keys \in SUBSET ExternalEngines :
         /\ n > MaxChainScenes => keys = {}
         /\ \A i \in GraphScenes : i > n => primary[i] = "local"
         /\ em = render_all_scenes(n, primary, keys, max_concurrent)

SpecGraphs == InitGraphs /\ [][NextRender]_vars

\* ------------------------------------------------------------------------
\* engine_adapters/runway.py (pika.py and luma.py have the same structure):
\* generate = submit -> poll -> download, every exception handled
\* ------------------------------------------------------------------------
\* The longest time one HTTP exchange takes, in steps of poll_interval seconds
\* (below every httpx client timeout).
MaxDelay == 3

timeout_seconds == 60

poll_interval == 5

rate_limit_backoff == 10

Delays == {k * poll_interval : k \in 0..MaxDelay}

\* What _submit can do: return the task id, or raise _RateLimitError (429),
\* _ModerationError (422 with a moderation body), or another exception
\* (raise_for_status, a transport error).
SubmitOutcomes == {"id", "RateLimitError", "ModerationError", "Exception"}

\* What one iteration of the _poll loop can see: 429, another non-200 status,
\* a task still running, SUCCEEDED with an output URL, SUCCEEDED without one
\* or FAILED (RuntimeError), FAILED for moderation, or a transport error.
PollOutcomes ==
    {"429", "non200", "running", "url", "ModerationError", "Exception"}

\* A generate without the last "except Exception" clause.
handle_exception_no_catch_all(call, exc) ==
    CASE exc = "ModerationError" ->
           [call EXCEPT !.pc = "returned",
                        !.result = EngineResult(FALSE, "moderation_rejection", TRUE, FALSE)]
      [] exc = "RateLimitError" ->
           [call EXCEPT !.pc = "returned",
                        !.result = EngineResult(FALSE, "rate_limited", FALSE, TRUE)]
      [] exc = "TimeoutError" ->
           [call EXCEPT !.pc = "returned",
                        !.result = EngineResult(FALSE, "timeout", FALSE, FALSE)]
      [] OTHER -> [call EXCEPT !.pc = "raised"]

\* The except clauses of generate: every exception becomes an EngineResult
\* with success=False.
handle_exception(call, exc) ==
    CASE exc = "ModerationError" ->
           [call EXCEPT !.pc = "returned",
                        !.result = EngineResult(FALSE, "moderation_rejection", TRUE, FALSE)]
      [] exc = "RateLimitError" ->
           [call EXCEPT !.pc = "returned",
                        !.result = EngineResult(FALSE, "rate_limited", FALSE, TRUE)]
      [] exc = "TimeoutError" ->
           [call EXCEPT !.pc = "returned",
                        !.result = EngineResult(FALSE, "timeout", FALSE, FALSE)]
      [] OTHER ->
           [call EXCEPT !.pc = "returned",
                        !.result = EngineResult(FALSE, "api_error", FALSE, FALSE)]

\* generate(...) is called at time now on an adapter with or without a key.
generate(api_key, now) ==
    [NoCall EXCEPT !.pc = "start", !.api_key = api_key, !.now = now, !.t0 = now]

\* generate up to the try block: no API key -> missing_api_key.
GenerateStart ==
    /\ eng.pc = "start"
    /\ eng' = IF ~eng.api_key
              THEN [eng EXCEPT !.pc = "returned",
                               !.result = EngineResult(FALSE, "missing_api_key", FALSE, FALSE)]
              ELSE [eng EXCEPT !.pc = "submit"]
    /\ UNCHANGED <<job, scene, seg, queue, wk, crashes, fleet, em, lib>>

\* gen_id = await self._submit(payload); then _poll computes its deadline.
Submit ==
    /\ eng.pc = "submit"
    /\ \E d \in Delays, outcome \in SubmitOutcomes :
         LET call == [eng EXCEPT !.now = @ + d] IN
         eng' = IF outcome = "id"
                THEN [call EXCEPT !.pc = "poll",
                                  !.deadline = call.now + timeout_seconds]
                ELSE handle_exception(call, outcome)
    /\ UNCHANGED <<job, scene, seg, queue, wk, crashes, fleet, em, lib>>

\* One iteration of "while time.monotonic() < deadline": sleep, GET the task,
\* back off on 429, go on polling while the task runs.
Poll ==
    /\ eng.pc = "poll"
    /\ eng.now < eng.deadline
    /\ \E d \in Delays, outcome \in PollOutcomes :
         LET call == [eng EXCEPT !.now = @ + poll_interval + d
                                    + (IF outcome = "429" THEN rate_limit_backoff ELSE 0)]
         IN eng' = CASE outcome \in {"429", "non200", "running"} -> call
                     [] outcome = "url" ->
                          [call EXCEPT !.pc = "download", !.polled_at = call.now]
                     [] OTHER -> handle_exception(call, outcome)
    /\ UNCHANGED <<job, scene, seg, queue, wk, crashes, fleet, em, lib>>

\* The loop condition fails: raise TimeoutError.
PollTimeout ==
    /\ eng.pc = "poll"
    /\ eng.now >= eng.deadline
    /\ eng' = handle_exception([eng EXCEPT !.polled_at = eng.now], "TimeoutError")
    /\ UNCHANGED <<job, scene, seg, queue, wk, crashes, fleet, em, lib>>

\* await self._download(result_url, clip_path): the clip is written, or
\* raise_for_status / the transport / the write raises.
Download ==
    /\ eng.pc = "download"
    /\ \E d \in Delays, downloaded \in BOOLEAN :
         LET call == [eng EXCEPT !.now = @ + d] IN
         eng' = IF downloaded
                THEN [call EXCEPT !.pc = "returned",
                                  !.result = EngineResult(TRUE, "None", FALSE, FALSE)]
                ELSE handle_exception(call, "Exception")
    /\ UNCHANGED <<job, scene, seg, queue, wk, crashes, fleet, em, lib>>

\* A generate call on an adapter with or without an API key.
InitEngine ==
    /\ job = [j \in Jobs |-> NoJob]
    /\ scene = [j \in Jobs |-> [s \in SceneIds |-> NoRow]]
    /\ seg = [j \in Jobs |-> [i \in SegIdx |-> NoRow]]
    /\ queue = <<>>
    /\ wk = [w \in Workers |-> Down]
    /\ crashes = 0
    /\ fleet = {}
    /\ em = NoRender
    /\ lib = NoLib
    /\ \E api_key \in BOOLEAN : eng = generate(api_key, 0)

NextEngine ==
    \/ GenerateStart
    \/ Submit
    \/ Poll
    \/ PollTimeout
    \/ Download

SpecEngine == InitEngine /\ [][NextEngine]_vars

\* ------------------------------------------------------------------------
\* Helper functions called on their own
\* ------------------------------------------------------------------------
\* No job is in the store, no worker, render call or generate call runs.
Quiet ==
    /\ job = [j \in Jobs |-> NoJob]
    /\ scene = [j \in Jobs |-> [s \in SceneIds |-> NoRow]]
    /\ seg = [j \in Jobs |-> [i \in SegIdx |-> NoRow]]
    /\ queue = <<>>
    /\ wk = [w \in Workers |-> Down]
    /\ crashes = 0
    /\ fleet = {}
    /\ em = NoRender
    /\ eng = NoCall

\* ------------------------------------------------------------------------
\* worker/state_machine.py: the transition helpers against any store
\* ------------------------------------------------------------------------
\* The job ids a caller may pass: one more than there are jobs.
StoreIds == 1..(NumJobs + 1)

\* The way a transition helper ends: a missing row is logged and the helper
\* returns before db.commit(); otherwise the row is changed and committed.
transition_ends(found) == IF found THEN "committed" ELSE "logged"

\* The keywords the runners pass with a status.
StatusKw(new_status) ==
    IF new_status = "FAILED" THEN [error |-> "set"] ELSE NoKw

TransitionJob(j, new_status) ==
    /\ job' = transition_job(job, j, new_status, StatusKw(new_status))
    /\ lib' = [fn |-> "transition_job", found |-> job[j].version # 0,
               ends |-> transition_ends(job[j].version # 0)]
    /\ UNCHANGED <<scene, seg, queue, wk, crashes, fleet, em, eng>>

TransitionJobV2(j, new_status) ==
    /\ job' = transition_job_v2(job, j, new_status, StatusKw(new_status))
    /\ lib' = [fn |-> "transition_job_v2", found |-> job[j].version # 0,
               ends |-> transition_ends(job[j].version # 0)]
    /\ UNCHANGED <<scene, seg, queue, wk, crashes, fleet, em, eng>>

TransitionScene(j, s, new_status) ==
    /\ scene' = transition_scene(scene, j, s, new_status)
    /\ lib' = [fn |-> "transition_scene", found |-> scene[j][s] # NoRow,
               ends |-> transition_ends(scene[j][s] # NoRow)]
    /\ UNCHANGED <<job, seg, queue, wk, crashes, fleet, em, eng>>

\* Any store: each id has no row, a legacy job row or a scene-graph job row;
\* a scene-graph job has its scene rows, a legacy job its segment rows.
InitStore ==
    /\ job \in [StoreIds -> {NoJob, JobRow(1, "PRODUCT_HERO"),
                             JobRow(2, "SCENE_GRAPH")}]
    /\ scene = [j \in StoreIds |-> [s \in SceneIds |->
                   IF job[j].version = 2 THEN "PENDING" ELSE NoRow]]
    /\ seg = [j \in StoreIds |-> [i \in SegIdx |->
                   IF job[j].version = 1 THEN "PENDING" ELSE NoRow]]
    /\ queue = <<>>
    /\ wk = [w \in Workers |-> Down]
    /\ crashes = 0
    /\ fleet = {}
    /\ em = NoRender
    /\ eng = NoCall
    /\ lib = NoLib

NextStore ==
    \/ \E j \in StoreIds : TransitionJob(j, "PLANNING")
    \/ \E j \in StoreIds : TransitionJobV2(j, "FAILED")
    \/ \E j \in StoreIds, s \in SceneIds : TransitionScene(j, s, "RENDERING")

SpecStore == InitStore /\ [][NextStore]_vars

\* ------------------------------------------------------------------------
\* scene_graph/planner.py and scene_graph/models.py
\* ------------------------------------------------------------------------
\* The longest prompt of equal sentences, the longest prompt of sentences of
\* different lengths.
MaxPlanScenes == 61
MaxVoicedScenes == 3

DEFAULT_SCENE_DURATION_MS == 5000
MAX_TOTAL_DURATION_MS == 60000

\* Caption lengths in characters; the number of uploaded images; the
\* requested durations in seconds; voiceover_duration_ms (0 is None).
CaptionLens == {1, 40, 1000}
MediaCounts == {0, 2, 15}
TargetSeconds == {1, 15, 60}
Voiceovers == {0, 20000, 90000}

\* The stripped, non-empty parts a prompt splits into, each by its length.
Texts ==
    {[i \in 1..n |-> 40] : n \in 0..MaxPlanScenes}
        \cup UNION {[1..n -> CaptionLens] : n \in 1..MaxVoicedScenes}

\* A prompt: "" (empty), text with <SHOT N> markers, or any other text; text
\* without parts is a marker alone or whitespace alone.
Prompts ==
    {[kind |-> "empty", parts |-> <<>>]}
        \cup {[kind |-> k, parts |-> t] : k \in {"shots", "text"}, t \in Texts}

RECURSIVE SumSeq(_)
SumSeq(s) ==
    IF s = <<>> THEN 0
    ELSE IF Len(s) = 1 THEN s[1]
    ELSE LET h == Len(s) \div 2
         IN  SumSeq(SubSeq(s, 1, h)) + SumSeq(SubSeq(s, h + 1, Len(s)))

\* a * b = q * c + r with 0 <= r < c, one base-16 digit of b at a time, so
\* that no intermediate value leaves the 32-bit integers of the model
\* checker (a and c stay below 60 000 000).
RECURSIVE MulDivRem(_, _, _)
MulDivRem(a, b, c) ==
    IF b = 0 THEN <<0, 0>>
    ELSE LET h == MulDivRem(a, b \div 16, c)
             r == 16 * h[2] + (b % 16) * a
         IN  <<16 * h[1] + r \div c, r % c>>

\* int(a * b / c) for positive a, b, c.
MulDiv(a, b, c) == MulDivRem(a, b, c)[1]

MaxOf(a, b) == IF a >= b THEN a ELSE b
MinOf(a, b) == IF a <= b THEN a ELSE b

\* Scene(id, description, duration, media, caption, style, transition); the
\* texts are kept by their length.
Scene(description, caption) ==
    [description |-> description, caption |-> caption,
     duration |-> DEFAULT_SCENE_DURATION_MS, transition |-> "fade"]

\* Field(min_length=1) of Scene.description; duration 5000 is within
\* Field(ge=1000, le=60000).
SceneValid(s) == s.description >= 1

\* description = text[:120], caption = text
plan_from_shots(prompt) ==
    [i \in 1..Len(prompt.parts) |->
        Scene(MinOf(prompt.parts[i], 120), prompt.parts[i])]

\* if not sentences: sentences = [prompt.strip()]
plan_from_sentences(prompt) ==
    LET sentences == IF prompt.parts = <<>> THEN <<0>> ELSE prompt.parts
    IN  [i \in 1..Len(sentences) |->
            Scene(MinOf(sentences[i], 120), sentences[i])]

\* description = "Product image N", caption = preset default_caption or "".
plan_from_images(media_files) ==
    [i \in 1..media_files |-> Scene(15, 0)]

\* The three template scenes: (description, caption) lengths.
plan_from_template ==
    <<Scene(22, 23), Scene(17, 25), Scene(14, 15)>>

\* _assign_durations: the share by caption length (voiceover given) or the
\* equal split of target_ms, floor 1000; then, if the total is over 60 000,
\* every duration times 60 000 / total, floor 1000 again.  int() of a
\* positive quotient is the integer division.
assign_durations(scenes, target_ms, voiceover_duration_ms) ==
    LET n == Len(scenes)
        total_chars == MaxOf(SumSeq([i \in 1..n |-> scenes[i].caption]), 1)
        effective_total == MinOf(voiceover_duration_ms, MAX_TOTAL_DURATION_MS)
        per_scene == MaxOf(1000, target_ms \div n)
        first == [i \in 1..n |->
                    [scenes[i] EXCEPT !.duration =
                        IF voiceover_duration_ms > 0
                        THEN MaxOf(1000, (MaxOf(scenes[i].caption, 1)
                                             * effective_total) \div total_chars)
                        ELSE per_scene]]
        total == SumSeq([i \in 1..n |-> first[i].duration])
    IN  IF total > MAX_TOTAL_DURATION_MS
        THEN [i \in 1..n |->
                [first[i] EXCEPT !.duration =
                    MaxOf(1000, MulDiv(@, MAX_TOTAL_DURATION_MS, total))]]
        ELSE first

\* if brand_safe: a transition that is not CUT or FADE becomes FADE.
brand_safe_pass(scenes, brand_safe) ==
    [i \in 1..Len(scenes) |->
        IF brand_safe /\ scenes[i].transition \notin {"cut", "fade"}
        THEN [scenes[i] EXCEPT !.transition = "fade"]
        ELSE scenes[i]]

\* SceneGraph._validate_scene_graph: the ids 1..n are unique; the total
\* duration must not exceed 60 000 ms.
validate_scene_graph(scenes) ==
    SumSeq([i \in 1..Len(scenes) |-> scenes[i].duration]) <= 60000

\* The result of a call: how it ended and the scenes of the graph.
PlanResult(ends, scenes) == [ends |-> ends, scenes |-> scenes]

\* plan_scenes: strategy by prompt and media; a Scene that fails its field
\* validation raises ValidationError where it is built; zero scenes raise
\* PlanningError; then durations, brand-safe pass, SceneGraph validation.
plan_scenes(media_files, prompt, brand_safe, target_duration_seconds, voiceover_duration_ms) ==
    LET target_ms == MinOf(target_duration_seconds * 1000, MAX_TOTAL_DURATION_MS)
        scenes == CASE prompt.kind = "shots" -> plan_from_shots(prompt)
                    [] prompt.kind = "text" -> plan_from_sentences(prompt)
                    [] media_files > 0 -> plan_from_images(media_files)
                    [] OTHER -> plan_from_template
        timed == brand_safe_pass(
                     assign_durations(scenes, target_ms, voiceover_duration_ms),
                     brand_safe)
    IN  IF \E i \in 1..Len(scenes) : ~SceneValid(scenes[i])
        THEN PlanResult("ValidationError", <<>>)
        ELSE IF scenes = <<>>
        THEN PlanResult("PlanningError", <<>>)
        ELSE IF ~validate_scene_graph(timed)
        THEN PlanResult("ValidationError", timed)
        ELSE PlanResult("returned", timed)

\* A call of plan_scenes with its arguments, before it runs.
PlanCall(media_files, prompt, brand_safe, target, voiceover) ==
    [fn |-> "plan_scenes", pc |-> "called", media_files |-> media_files,
     prompt |-> prompt, brand_safe |-> brand_safe,
     target_duration_seconds |-> target, voiceover_duration_ms |-> voiceover,
     result |-> PlanResult("-", <<>>), status_code |-> 0]

\* plan_scenes called directly (tests, tools).
PlanScenes ==
    /\ lib.fn = "plan_scenes"
    /\ lib.pc = "called"
    /\ lib' = [lib EXCEPT !.pc = "done",
                 !.result = plan_scenes(lib.media_files, lib.prompt,
                                lib.brand_safe, lib.target_duration_seconds,
                                lib.voiceover_duration_ms)]
    /\ UNCHANGED <<job, scene, seg, queue, wk, crashes, fleet, em, eng>>

\* The response to an exception of the planner: only PlanningError is caught
\* (HTTP 400); any other exception leaves the handler (HTTP 500).
plan_failure_status(ends) == IF ends = "PlanningError" THEN 400 ELSE 500

\* POST /api/v2/jobs with a known preset: plan_scenes without a voiceover duration; on success
\* the job row, one PENDING scene row per scene (the scenes table of the
\* model holds NumScenes rows per job) and HTTP 201.
PostJobsV2(j) ==
    /\ lib.fn = "plan_scenes"
    /\ lib.pc = "called"
    /\ lib.voiceover_duration_ms = 0
    /\ job[j].version = 0
    /\ LET r == plan_scenes(lib.media_files, lib.prompt, lib.brand_safe,
                            lib.target_duration_seconds, 0)
       IN  IF r.ends = "returned"
           THEN /\ lib' = [lib EXCEPT !.pc = "responded", !.result = r,
                                      !.status_code = 201]
                /\ job' = [job EXCEPT ![j] = JobRow(2, "SCENE_GRAPH")]
                /\ scene' = [scene EXCEPT ![j] = [s \in SceneIds |->
                                IF s <= Len(r.scenes) THEN "PENDING" ELSE NoRow]]
                /\ queue' = enqueue_job(queue, j)
           ELSE /\ lib' = [lib EXCEPT !.pc = "responded", !.result = r,
                                      !.status_code = plan_failure_status(r.ends)]
                /\ UNCHANGED <<job, scene, queue>>
    /\ UNCHANGED <<seg, wk, crashes, fleet, em, eng>>

InitPlanner ==
    /\ Quiet
    /\ \E media_files \in MediaCounts, prompt \in Prompts, brand_safe \in BOOLEAN,
          target \in TargetSeconds, voiceover \in Voiceovers :
          lib = PlanCall(media_files, prompt, brand_safe, target, voiceover)

NextPlanner ==
    \/ PlanScenes
    \/ \E j \in Jobs : PostJobsV2(j)

SpecPlanner == InitPlanner /\ [][NextPlanner]_vars

\* ------------------------------------------------------------------------
\* timeline/orchestrator.py and timeline/models.py
\* ------------------------------------------------------------------------
\* The longest Scene Graph handed to build_timeline.
MaxTimelineScenes == 3

DEFAULT_TRANSITION_MS == 500
MAX_TOTAL_MS == 60000

\* Scene durations (ms), transitions and captions ("" or a text) of the
\* graphs.
TimelineDurations == {1000, 1300, 29000}
TransitionTypes == {"cut", "fade"}

\* A scene of a Scene Graph as build_timeline reads it.
GraphScene(id, duration, transition, caption) ==
    [id |-> id, duration |-> duration, transition |-> transition,
     caption |-> caption]

\* A valid Scene Graph: at least one scene, ids unique, every duration in
\* 1000..60000, total duration at most 60 000 ms.
SceneGraph(d, t, c) ==
    [i \in 1..Len(d) |-> GraphScene(i, d[i], t[i], c[i])]

\* TimelineEntry.transition of the last entry (None).
NoTransition == [type |-> "-", duration |-> 0]

\* A transition twice as long as default_transition_ms.
transition_duration_doubled(t_type, default_transition_ms) ==
    IF t_type # "cut" THEN 2 * default_transition_ms ELSE 0

\* t_dur = default_transition_ms if t_type != TransitionType.CUT else 0
transition_duration(t_type, default_transition_ms) ==
    IF t_type # "cut" THEN default_transition_ms ELSE 0

\* A layout in which the cursor gives up the overlap twice.
layout_borrows_twice(scenes, duration, t_dur) ==
    LET n == Len(scenes)
        overlap(k) == IF k = n THEN 0 ELSE t_dur[k]
        cursor(i) == SumSeq([k \in 1..(i - 1) |-> duration[k] - 2 * overlap(k)])
    IN  [i \in 1..n |->
            [sceneId |-> scenes[i].id, start |-> cursor(i),
             end |-> cursor(i) + duration[i],
             transition |-> IF i = n THEN NoTransition
                            ELSE [type |-> scenes[i].transition,
                                  duration |-> t_dur[i]]]]

\* The loop over the scenes: entry i starts at the cursor and ends duration
\* later; the cursor advances by duration - overlap, overlap being the
\* transition duration except after the last scene.
layout(scenes, duration, t_dur) ==
    LET n == Len(scenes)
        overlap(k) == IF k = n THEN 0 ELSE t_dur[k]
        cursor(i) == SumSeq([k \in 1..(i - 1) |-> duration[k] - overlap(k)])
    IN  [i \in 1..n |->
            [sceneId |-> scenes[i].id, start |-> cursor(i),
             end |-> cursor(i) + duration[i],
             transition |-> IF i = n THEN NoTransition
                            ELSE [type |-> scenes[i].transition,
                                  duration |-> t_dur[i]]]]

\* _proportional_reduce: every duration times 60 000 / original_total, floor
\* 1000; a transition is at most half of the new duration.
proportional_reduce(entries, scenes, default_transition_ms) ==
    LET n == Len(scenes)
        original_total == entries[n].end
        new_duration == [i \in 1..n |->
            MaxOf(1000, MulDiv(scenes[i].duration, MAX_TOTAL_MS, original_total))]
        t_dur == [i \in 1..n |->
            MinOf(transition_duration(scenes[i].transition, default_transition_ms),
                  new_duration[i] \div 2)]
    IN  layout(scenes, new_duration, t_dur)

\* Captions that start 300 ms before their scene.
caption_tracks_early(scenes, entries) ==
    LET captioned == {i \in 1..Len(scenes) : scenes[i].caption}
    IN  {[sceneId |-> scenes[i].id, start |-> entries[i].start - 300,
          end |-> entries[i].end - 200] : i \in captioned}

\* Step 4: one caption track per scene with a caption, from 200 ms after the
\* start to 200 ms before the end of the entry of that scene id, or the whole
\* entry when that span is empty.
caption_tracks(scenes, entries) ==
    LET captioned == {i \in 1..Len(scenes) : scenes[i].caption}
        te(i) == CHOOSE k \in 1..Len(entries) : entries[k].sceneId = scenes[i].id
        cap_start(i) == entries[te(i)].start + 200
        cap_end(i) == entries[te(i)].end - 200
    IN  {IF cap_end(i) <= cap_start(i)
         THEN [sceneId |-> scenes[i].id, start |-> entries[te(i)].start,
               end |-> entries[te(i)].end]
         ELSE [sceneId |-> scenes[i].id, start |-> cap_start(i),
               end |-> cap_end(i)] : i \in captioned}

\* The field constraints and validators of TimelineEntry, CaptionTrack,
\* TransitionSpec and Timeline.
timeline_valid(total_duration, entries, captions) ==
    /\ total_duration >= 1000 /\ total_duration <= 60000
    /\ Len(entries) >= 1
    /\ \A i \in 1..Len(entries) :
          /\ entries[i].start >= 0 /\ entries[i].end >= 1
          /\ entries[i].end > entries[i].start
          /\ entries[i].transition.duration >= 0
          /\ entries[i].transition.duration <= 2000
    /\ \A c \in captions : c.start >= 0 /\ c.end >= 1 /\ c.end > c.start
    /\ \A i \in 2..Len(entries) :
          /\ entries[i].start >= entries[i - 1].start
          /\ entries[i].start >=
                 entries[i - 1].end - entries[i - 1].transition.duration
    /\ \A c \in captions : \A i \in 1..Len(entries) :
          entries[i].sceneId = c.sceneId =>
              c.start >= entries[i].start /\ c.end <= entries[i].end

\* build_timeline: layout, reduction when the total is over 60 000 ms,
\* caption tracks, then Timeline(...), which validates.
build_timeline(scenes, default_transition_ms) ==
    LET n == Len(scenes)
        first == layout(scenes, [i \in 1..n |-> scenes[i].duration],
                     [i \in 1..n |-> transition_duration(scenes[i].transition,
                                         default_transition_ms)])
        entries == IF first[n].end > MAX_TOTAL_MS
                   THEN proportional_reduce(first, scenes, default_transition_ms)
                   ELSE first
        total_duration == entries[n].end
        captions == caption_tracks(scenes, entries)
    IN  [ends |-> IF timeline_valid(total_duration, entries, captions)
                  THEN "returned" ELSE "ValidationError",
         totalDuration |-> total_duration, timeline |-> entries,
         captions |-> captions]

\* A call of build_timeline before it runs.
TimelineCall(scenes) ==
    [fn |-> "build_timeline", pc |-> "called", scenes |-> scenes]

BuildTimeline ==
    /\ lib.fn = "build_timeline"
    /\ lib.pc = "called"
    /\ lib' = [fn |-> "build_timeline", pc |-> "done", scenes |-> lib.scenes,
               result |-> build_timeline(lib.scenes, DEFAULT_TRANSITION_MS)]
    /\ UNCHANGED <<job, scene, seg, queue, wk, crashes, fleet, em, eng>>

InitTimeline ==
    /\ Quiet
    /\ \E n \in 1..MaxTimelineScenes :
          \E d \in [1..n -> TimelineDurations], t \in [1..n -> TransitionTypes],
             c \in [1..n -> BOOLEAN] :
             /\ SumSeq(d) <= 60000
             /\ lib = TimelineCall(SceneGraph(d, t, c))

NextTimeline == BuildTimeline

SpecTimeline == InitTimeline /\ [][NextTimeline]_vars

\* ------------------------------------------------------------------------
\* audio_manager/alignment.py: the even-time fallback
\* ------------------------------------------------------------------------
\* The most sentences of a transcript and the most scenes of a job.
MaxSentences == 6
MaxAlignScenes == 2

\* Scene durations (ms) of the scene boundaries.
AlignDurations == {1000, 2000, 5000}

\* scene_boundaries: (scene_id, start_ms, end_ms) of consecutive scenes.
SceneBoundaries(d) ==
    [i \in 1..Len(d) |->
        [scene_id |-> i,
         start |-> SumSeq([k \in 1..(i - 1) |-> d[k]]),
         end |-> SumSeq([k \in 1..i |-> d[k]])]]

AlignedCaption(sentence, start_ms, end_ms, scene_id) ==
    [sentence |-> sentence, start_ms |-> start_ms, end_ms |-> end_ms,
     scene_id |-> scene_id]

\* n_sentences <= n_scenes: sentence i on scene i, 200 ms inside its bounds,
\* or on the whole scene when that span is empty.
one_sentence_per_scene(n_sentences, scene_boundaries) ==
    {LET b == scene_boundaries[i]
     IN  IF b.end - 200 <= b.start + 200
         THEN AlignedCaption(i, b.start, b.end, b.scene_id)
         ELSE AlignedCaption(i, b.start + 200, b.end - 200, b.scene_id) :
        i \in 1..n_sentences}

\* n_sentences > n_scenes: scene k takes the sentences int(idx) ..
\* int(idx + per_scene) - 1 with idx = (k - 1) * per_scene, and gives each of
\* them an equal slice of the scene, 100 ms inside the slice; a slice that is
\* left empty gets 500 ms.  The quotients are taken exactly.
split_within_scenes(n_sentences, scene_boundaries) ==
    LET n_scenes == Len(scene_boundaries)
        start_i(k) == ((k - 1) * n_sentences) \div n_scenes
        end_i(k) == MinOf((k * n_sentences) \div n_scenes, n_sentences)
        count(k) == end_i(k) - start_i(k)
        cap_start(k, j) ==
            scene_boundaries[k].start
                + (j * (scene_boundaries[k].end - scene_boundaries[k].start))
                      \div count(k) + 100
        cap_end(k, j) ==
            scene_boundaries[k].start
                + ((j + 1) * (scene_boundaries[k].end - scene_boundaries[k].start))
                      \div count(k) - 100
    IN  UNION {{AlignedCaption(start_i(k) + j + 1, cap_start(k, j),
                    IF cap_end(k, j) <= cap_start(k, j)
                    THEN cap_start(k, j) + 500 ELSE cap_end(k, j),
                    scene_boundaries[k].scene_id) :
                  j \in 0..(count(k) - 1)} : k \in 1..n_scenes}

\* _even_time_split: no sentence or no scene -> no caption.
even_time_split(n_sentences, scene_boundaries) ==
    IF n_sentences = 0 \/ scene_boundaries = <<>> THEN {}
    ELSE IF n_sentences <= Len(scene_boundaries)
    THEN one_sentence_per_scene(n_sentences, scene_boundaries)
    ELSE split_within_scenes(n_sentences, scene_boundaries)

EvenTimeSplit ==
    /\ lib.fn = "_even_time_split"
    /\ lib.pc = "called"
    /\ lib' = [lib EXCEPT !.pc = "done",
                 !.captions = even_time_split(lib.n_sentences,
                                              lib.scene_boundaries)]
    /\ UNCHANGED <<job, scene, seg, queue, wk, crashes, fleet, em, eng>>

InitAlign ==
    /\ Quiet
    /\ \E n_sentences \in 0..MaxSentences, n \in 0..MaxAlignScenes :
          \E d \in [1..n -> AlignDurations] :
             lib = [fn |-> "_even_time_split", pc |-> "called",
                    n_sentences |-> n_sentences,
                    scene_boundaries |-> SceneBoundaries(d), captions |-> {}]

NextAlign == EvenTimeSplit

SpecAlign == InitAlign /\ [][NextAlign]_vars

\* ------------------------------------------------------------------------
\* assembler/transitions.py and engine_adapters/brand_safe.py
\* ------------------------------------------------------------------------
\* FFmpeg xfade names by transition type; "fade" for a type not in the map.
TRANSITION_MAP(t_type) ==
    CASE t_type = "fade" -> "fade"
      [] t_type = "fade_black" -> "fadeblack"
      [] t_type = "cut" -> "fade"
      [] t_type = "swipe_left" -> "slideleft"
      [] t_type = "swipe_right" -> "slideright"
      [] t_type = "wipe_left" -> "wipeleft"
      [] t_type = "wipe_right" -> "wiperight"
      [] t_type = "zoom_in" -> "smoothup"
      [] t_type = "dissolve" -> "dissolve"
      [] t_type = "pixelize" -> "pixelize"
      [] OTHER -> "fade"

BRAND_SAFE_ALLOWED == {"fade", "cut", "fade_black"}
BRAND_SAFE_TRANSITIONS == {"cut", "fade"}

\* Durations in ms (MIN_DURATION_S, MAX_DURATION_S, DEFAULT_DURATION_S).
MIN_DURATION_MS == 300
MAX_DURATION_MS == 1500
DEFAULT_DURATION_MS == 500

\* The requested transition types: the TransitionType values, further keys of
\* the map, an unknown type, an upper-case spelling and "" (not given).
RequestedTransitions ==
    {"cut", "fade", "fade_black", "swipe_left", "swipe_right", "wipe_left",
     "zoom_in", "dissolve", "sparkle", "FADE", "SWIPE_LEFT", ""}

\* duration_ms arguments (0 is None); preset_default arguments ("" is None).
RequestedDurations == {0, 100, 800, 3000}
PresetDefaults == {"", "dissolve"}

\* str.lower() on the requested types.
Lower(s) ==
    CASE s = "FADE" -> "fade"
      [] s = "SWIPE_LEFT" -> "swipe_left"
      [] OTHER -> s

\* transition_type or preset_default or "fade"
FirstGiven(transition_type, preset_default) ==
    IF transition_type # "" THEN transition_type
    ELSE IF preset_default # "" THEN preset_default
    ELSE "fade"

\* resolve_transition: brand-safe downgrade, xfade name, cut flag, duration
\* (1 ms for a cut, the clamped request, or the default).
resolve_transition(transition_type, duration_ms, brand_safe, preset_default) ==
    LET given == Lower(FirstGiven(transition_type, preset_default))
        t_type == IF brand_safe /\ given \notin BRAND_SAFE_ALLOWED
                  THEN "fade" ELSE given
        is_cut == t_type = "cut"
    IN  [t_type |-> t_type, xfade_name |-> TRANSITION_MAP(t_type),
         is_cut |-> is_cut,
         duration_ms |-> IF is_cut THEN 1
                         ELSE IF duration_ms # 0
                         THEN MaxOf(MIN_DURATION_MS, MinOf(MAX_DURATION_MS, duration_ms))
                         ELSE DEFAULT_DURATION_MS]

\* enforce_transition_restriction: the type itself, or "fade" when brand_safe
\* and the lower-cased type is not cut or fade.
enforce_transition_restriction(transition_type, brand_safe) ==
    IF ~brand_safe THEN transition_type
    ELSE IF Lower(transition_type) \notin BRAND_SAFE_TRANSITIONS THEN "fade"
    ELSE transition_type

ResolveTransition ==
    /\ lib.fn = "transition"
    /\ lib.pc = "called"
    /\ lib' = [lib EXCEPT !.pc = "resolved",
                 !.spec = resolve_transition(lib.transition_type, lib.duration_ms,
                              lib.brand_safe, lib.preset_default)]
    /\ UNCHANGED <<job, scene, seg, queue, wk, crashes, fleet, em, eng>>

EnforceTransitionRestriction ==
    /\ lib.fn = "transition"
    /\ lib.pc = "called"
    /\ lib.transition_type # ""
    /\ lib' = [lib EXCEPT !.pc = "enforced",
                 !.enforced = enforce_transition_restriction(lib.transition_type,
                                  lib.brand_safe)]
    /\ UNCHANGED <<job, scene, seg, queue, wk, crashes, fleet, em, eng>>

InitTransitions ==
    /\ Quiet
    /\ \E transition_type \in RequestedTransitions,
          duration_ms \in RequestedDurations, brand_safe \in BOOLEAN,
          preset_default \in PresetDefaults :
          lib = [fn |-> "transition", pc |-> "called",
                 transition_type |-> transition_type,
                 duration_ms |-> duration_ms, brand_safe |-> brand_safe,
                 preset_default |-> preset_default,
                 spec |-> [t_type |-> "-", xfade_name |-> "-", is_cut |-> FALSE,
                           duration_ms |-> 0],
                 enforced |-> "-"]

NextTransitions ==
    \/ ResolveTransition
    \/ EnforceTransitionRestriction

SpecTransitions == InitTransitions /\ [][NextTransitions]_vars

\* ------------------------------------------------------------------------
\* engine_adapters/prompt_builder.py
\* ------------------------------------------------------------------------
\* The most pieces a prompt is put together from.
MaxPromptPieces == 3

\* The pieces: words of the substitution map in several spellings, a
\* blocklisted name, other words and word parts, blanks and punctuation.
PromptPieces ==
    {"shoot", "ing", "gun", "KILL", "Acme", " ", "  ", "-"}

UpperAlpha == "ABCDEFGHIJKLMNOPQRSTUVWXYZ"
LowerAlpha == "abcdefghijklmnopqrstuvwxyz"

\* The character at position i of s.
CharAt(s, i) == SubSeq(s, i, i)

\* \w of the re module, on the characters of the prompts.
UpperChars == {CharAt(UpperAlpha, i) : i \in 1..26}
WordChars == UpperChars \cup {CharAt(LowerAlpha, i) : i \in 1..26}

IsWordChar(c) == c \in WordChars

\* \s of the re module, on the characters of the prompts.
IsSpace(c) == c = " "

LowerMap ==
    [c \in UpperChars |->
        CharAt(LowerAlpha, CHOOSE i \in 1..26 : c = CharAt(UpperAlpha, i))]

LowerChar(c) == IF c \in UpperChars THEN LowerMap[c] ELSE c

\* str.lower() of the positions lo..hi of s, a quarter at a time
RECURSIVE lower_range(_, _, _)
lower_range(s, lo, hi) ==
    IF hi - lo < 4
    THEN LowerChar(SubSeq(s, lo, lo)) \o LowerChar(SubSeq(s, lo + 1, MinOf(lo + 1, hi)))
         \o LowerChar(SubSeq(s, lo + 2, MinOf(lo + 2, hi)))
         \o LowerChar(SubSeq(s, lo + 3, MinOf(lo + 3, hi)))
    ELSE LET q == (hi - lo + 1) \div 4
         IN  lower_range(s, lo, lo + q - 1) \o lower_range(s, lo + q, lo + 2 * q - 1)
             \o lower_range(s, lo + 2 * q, lo + 3 * q - 1) \o lower_range(s, lo + 3 * q, hi)

\* str.lower()
str_lower(s) == IF s = "" THEN "" ELSE lower_range(s, 1, Len(s))

\* str.strip()
RECURSIVE str_strip(_)
str_strip(s) ==
    IF s = "" THEN ""
    ELSE IF IsSpace(CharAt(s, 1)) THEN str_strip(SubSeq(s, 2, Len(s)))
    ELSE IF IsSpace(CharAt(s, Len(s))) THEN str_strip(SubSeq(s, 1, Len(s) - 1))
    ELSE s

\* \b term \b with re.IGNORECASE matches at position i of s, given both in
\* lower case; term begins and ends with a word character.
WordMatchAt(term, s, i) ==
    /\ i + Len(term) - 1 <= Len(s)
    /\ CharAt(s, i) = CharAt(term, 1)
    /\ SubSeq(s, i, i + Len(term) - 1) = term
    /\ i = 1 \/ ~IsWordChar(CharAt(s, i - 1))
    /\ i + Len(term) > Len(s) \/ ~IsWordChar(CharAt(s, i + Len(term)))

\* pattern.sub(new, s) at position i of s (nothing beyond hi); m is the set
\* of positions where the pattern matches.  term consists of word
\* characters, so two matches never overlap and each of them is replaced.
sub_at(term, new, s, m, i, hi) ==
    IF i > hi THEN ""
    ELSE IF i \in m THEN new
    ELSE IF \E j \in m : j < i /\ i < j + Len(term) THEN ""
    ELSE CharAt(s, i)

\* pattern.sub(new, s) for the positions lo..hi of s, a quarter at a time
RECURSIVE sub_range(_, _, _, _, _, _)
sub_range(term, new, s, m, lo, hi) ==
    IF hi - lo < 4
    THEN sub_at(term, new, s, m, lo, hi) \o sub_at(term, new, s, m, lo + 1, hi)
         \o sub_at(term, new, s, m, lo + 2, hi) \o sub_at(term, new, s, m, lo + 3, hi)
    ELSE LET q == (hi - lo + 1) \div 4
         IN  sub_range(term, new, s, m, lo, lo + q - 1)
             \o sub_range(term, new, s, m, lo + q, lo + 2 * q - 1)
             \o sub_range(term, new, s, m, lo + 2 * q, lo + 3 * q - 1)
             \o sub_range(term, new, s, m, lo + 3 * q, hi)

\* re.compile(r"\b" + re.escape(term) + r"\b", re.IGNORECASE).sub(new, s)
sub_word(term, new, s) ==
    LET lt == str_lower(term)
        ls == str_lower(s)
        m == {i \in 1..Len(s) : WordMatchAt(lt, ls, i)}
    IN  IF m = {} THEN s ELSE sub_range(lt, new, s, m, 1, Len(s))

\* Position i of s (nothing beyond hi), dropped if it is a blank that
\* follows a blank.
collapse_at(s, i, hi) ==
    IF i > hi THEN ""
    ELSE IF i > 1 /\ IsSpace(CharAt(s, i)) /\ IsSpace(CharAt(s, i - 1)) THEN ""
    ELSE CharAt(s, i)

RECURSIVE collapse_range(_, _, _)
collapse_range(s, lo, hi) ==
    IF hi - lo < 4
    THEN collapse_at(s, lo, hi) \o collapse_at(s, lo + 1, hi)
         \o collapse_at(s, lo + 2, hi) \o collapse_at(s, lo + 3, hi)
    ELSE LET q == (hi - lo + 1) \div 4
         IN  collapse_range(s, lo, lo + q - 1) \o collapse_range(s, lo + q, lo + 2 * q - 1)
             \o collapse_range(s, lo + 2 * q, lo + 3 * q - 1) \o collapse_range(s, lo + 3 * q, hi)

\* re.sub(r"\s{2,}", " ", s): a run of two or more blanks becomes one.
collapse_spaces(s) == IF s = "" THEN "" ELSE collapse_range(s, 1, Len(s))

\* A substitution map in which a later entry produces an earlier key.
DEFAULT_SUBSTITUTIONS_chained ==
    <<<<"shoot", "film">>, <<"shooting", "filming">>,
      <<"explode", "burst open">>, <<"explosion", "dynamic burst">>,
      <<"kill", "shoot">>, <<"weapon", "tool">>, <<"gun", "device">>,
      <<"blood", "red liquid">>, <<"violent", "intense">>,
      <<"nude", "exposed">>, <<"naked", "unclothed">>>>

\* _DEFAULT_SUBSTITUTIONS, in the order of the dict.
DEFAULT_SUBSTITUTIONS ==
    <<<<"shoot", "film">>, <<"shooting", "filming">>,
      <<"explode", "burst open">>, <<"explosion", "dynamic burst">>,
      <<"kill", "eliminate">>, <<"weapon", "tool">>, <<"gun", "device">>,
      <<"blood", "red liquid">>, <<"violent", "intense">>,
      <<"nude", "exposed">>, <<"naked", "unclothed">>>>

\* for term in blocklist: result = pattern.sub("", result)
RECURSIVE remove_blocklisted(_, _)
remove_blocklisted(blocklist, s) ==
    IF blocklist = <<>> \/ s = "" THEN s
    ELSE remove_blocklisted(Tail(blocklist), sub_word(Head(blocklist), "", s))

\* for old, new in all_substitutions.items(): result = pattern.sub(new, result)
\* The entries are applied in order, the first half of the map before the
\* second.
RECURSIVE apply_substitutions(_, _)
apply_substitutions(subs, s) ==
    IF subs = <<>> \/ s = "" THEN s
    ELSE IF Len(subs) = 1 THEN sub_word(subs[1][1], subs[1][2], s)
    ELSE LET h == Len(subs) \div 2
         IN  apply_substitutions(SubSeq(subs, h + 1, Len(subs)),
                                 apply_substitutions(SubSeq(subs, 1, h), s))

\* sanitize_prompt: blocklist removal, substitutions (the configured map is
\* empty, so the merged map is the default one), blanks collapsed, strip.
sanitize_prompt(blocklist, prompt) ==
    IF prompt = "" THEN ""
    ELSE str_strip(collapse_spaces(
        apply_substitutions(DEFAULT_SUBSTITUTIONS,
                            remove_blocklisted(blocklist, prompt))))

\* The configured blocklists.
Blocklists == {<<>>, <<"acme">>}

\* The strings put together from n pieces.
RECURSIVE Pieced(_)
Pieced(n) ==
    IF n = 0 THEN {""}
    ELSE {p \o q : p \in PromptPieces, q \in Pieced(n - 1)} \cup Pieced(n - 1)

SanitizePrompt ==
    /\ lib.fn = "sanitize_prompt"
    /\ lib.pc = "called"
    /\ lib' = [lib EXCEPT !.pc = "once",
                 !.once = sanitize_prompt(lib.blocklist, lib.prompt)]
    /\ UNCHANGED <<job, scene, seg, queue, wk, crashes, fleet, em, eng>>

\* sanitize_prompt called on its own result (rephrase_for_moderation after
\* build_prompt).
SanitizeAgain ==
    /\ lib.fn = "sanitize_prompt"
    /\ lib.pc = "once"
    /\ lib' = [lib EXCEPT !.pc = "twice",
                 !.twice = sanitize_prompt(lib.blocklist, lib.once)]
    /\ UNCHANGED <<job, scene, seg, queue, wk, crashes, fleet, em, eng>>

InitSanitize ==
    /\ Quiet
    /\ \E prompt \in Pieced(MaxPromptPieces), blocklist \in Blocklists :
          lib = [fn |-> "sanitize_prompt", pc |-> "called",
                 blocklist |-> blocklist, prompt |-> prompt,
                 once |-> "", twice |-> ""]

NextSanitize ==
    \/ SanitizePrompt
    \/ SanitizeAgain

SpecSanitize == InitSanitize /\ [][NextSanitize]_vars

\* ", ".join(parts) / ". ".join(parts)
RECURSIVE Join(_, _)
Join(sep, parts) ==
    IF parts = <<>> THEN ""
    ELSE IF Len(parts) = 1 THEN parts[1]
    ELSE parts[1] \o sep \o Join(sep, Tail(parts))

\* The parts that are not empty, in order.
RECURSIVE Given(_)
Given(parts) ==
    IF parts = <<>> THEN <<>>
    ELSE IF Head(parts) = "" THEN Given(Tail(parts))
    ELSE <<Head(parts)>> \o Given(Tail(parts))

\* _style_to_keywords
style_to_keywords(style) ==
    Join(", ", Given(<<IF style.mood # "" THEN style.mood \o " mood" ELSE "",
                       IF style.camera_motion # ""
                       THEN "camera: " \o style.camera_motion ELSE "",
                       IF style.lighting # ""
                       THEN style.lighting \o " lighting" ELSE "">>))

\* The raw prompt: content, style hints, preset keywords and, if brand_safe,
\* the brand-safe cue, joined by ". ".
raw_prompt(content, style, preset_keywords, brand_safe) ==
    Join(". ", Given(<<content, style_to_keywords(style),
                       Join(", ", preset_keywords),
                       IF brand_safe
                       THEN "professional, brand-safe, clean aesthetic"
                       ELSE "">>))

\* if len(raw_prompt) > max_len: raw_prompt[:max_len - 3] + "..."
truncate(prompt, max_len) ==
    IF Len(prompt) > max_len THEN SubSeq(prompt, 1, max_len - 3) \o "..."
    ELSE prompt

\* build_prompt: the raw prompt is sanitized only if brand_safe, then
\* truncated and stripped.
build_prompt(content, style, preset_keywords, brand_safe, blocklist, max_len) ==
    LET raw == raw_prompt(content, style, preset_keywords, brand_safe)
    IN  str_strip(truncate(IF brand_safe THEN sanitize_prompt(blocklist, raw)
                           ELSE raw, max_len))

\* max_prompt_length: the default and a short configured one.
DEFAULT_MAX_PROMPT_LENGTH == 500
MaxPromptLengths == {DEFAULT_MAX_PROMPT_LENGTH, 30}

\* select_engine_for_scene computes the prompt of the assignment.
BuildPrompt ==
    /\ lib.fn = "build_prompt"
    /\ lib.pc = "called"
    /\ lib' = [lib EXCEPT !.pc = "built",
                 !.prompt = build_prompt(lib.content, lib.style, <<>>,
                                lib.brand_safe, lib.blocklist, lib.max_len)]
    /\ UNCHANGED <<job, scene, seg, queue, wk, crashes, fleet, em, eng>>

InitPrompt ==
    /\ Quiet
    /\ \E content \in Pieced(MaxPromptPieces - 1) \ {""}, mood \in {"", "violent"},
          brand_safe \in BOOLEAN, blocklist \in Blocklists,
          max_len \in MaxPromptLengths :
          lib = [fn |-> "build_prompt", pc |-> "called", content |-> content,
                 style |-> [mood |-> mood, camera_motion |-> "", lighting |-> ""],
                 brand_safe |-> brand_safe, blocklist |-> blocklist,
                 max_len |-> max_len, prompt |-> ""]

NextPrompt == BuildPrompt

SpecPrompt == InitPrompt /\ [][NextPrompt]_vars

\* ---------------------------------------------------------------------------
\* engine_adapters/validator.py: validation of an engine-generated clip.
\* Durations are in milliseconds, file sizes in bytes.  A field that ffprobe
\* leaves out of its JSON output is None.
\* ---------------------------------------------------------------------------
\* An optional number: <<>> is None, <<x>> is the value x.
None == <<>>

Some(x) == <<x>>

Val(o) == o[1]

min_width == 720

min_height == 1280

max_file_size_mb == 200

\* duration_tolerance = 0.2, as tenths
duration_tolerance_tenths == 2

FileSizes == {0, 1000, max_file_size_mb * 1024 * 1024, max_file_size_mb * 1024 * 1024 + 1}

ProbedDurations == {None, Some(2300), Some(2400), Some(3000), Some(3600), Some(3700)}

ProbedFrames == {<<None, None>>, <<Some(720), Some(1280)>>, <<Some(719), Some(1280)>>,
                 <<Some(720), Some(1279)>>, <<Some(1080), Some(1920)>>}

ExpectedDurations == {3000, 5000}

\* What _probe_video returns, reduced to the fields validate_clip reads:
\* ok is FALSE when ffprobe fails (None is returned), video says whether a
\* stream of codec_type "video" is listed.
FailedProbe == [ok |-> FALSE, video |-> FALSE, duration |-> None, width |-> None, height |-> None]

Probes ==
    {FailedProbe}
    \cup {[ok |-> TRUE, video |-> FALSE, duration |-> d, width |-> None, height |-> None] :
              d \in ProbedDurations}
    \cup {[ok |-> TRUE, video |-> TRUE, duration |-> d, width |-> f[1], height |-> f[2]] :
              d \in ProbedDurations, f \in ProbedFrames}

ValidationResult(valid, errors) == [valid |-> valid, errors |-> errors]

find_video_stream(probe) == probe.video

duration_check(duration, expected) ==
    duration # None /\ expected > 0
    /\ (Val(duration) * 10 < expected * (10 - duration_tolerance_tenths)
        \/ Val(duration) * 10 > expected * (10 + duration_tolerance_tenths))

resolution_check(width, height) ==
    width # None /\ height # None /\ (Val(width) < min_width \/ Val(height) < min_height)

validate_clip(exists, file_size, probe, expected) ==
    IF ~exists THEN ValidationResult(FALSE, <<"File does not exist">>)
    ELSE IF file_size = 0 THEN ValidationResult(FALSE, <<"File is empty">>)
    ELSE IF ~probe.ok THEN ValidationResult(FALSE, <<"ffprobe failed">>)
    ELSE IF ~find_video_stream(probe) THEN ValidationResult(FALSE, <<"No video stream">>)
    ELSE LET errors ==
                 (IF file_size > max_file_size_mb * 1024 * 1024 THEN <<"File too large">> ELSE <<>>)
                 \o (IF duration_check(probe.duration, expected) THEN <<"Duration">> ELSE <<>>)
                 \o (IF resolution_check(probe.width, probe.height) THEN <<"Resolution">> ELSE <<>>)
         IN  ValidationResult(errors = <<>>, errors)

ValidateClip ==
    /\ lib.fn = "validate_clip" /\ lib.pc = "called"
    /\ lib' = [lib EXCEPT !.pc = "returned",
                          !.result = validate_clip(lib.exists, lib.file_size, lib.probe, lib.expected)]
    /\ UNCHANGED <<job, scene, seg, queue, wk, crashes, fleet, em, eng>>

InitValidate ==
    /\ Quiet
    /\ \E exists \in BOOLEAN, file_size \in FileSizes, probe \in Probes, expected \in ExpectedDurations :
           lib = [fn |-> "validate_clip", pc |-> "called", exists |-> exists, file_size |-> file_size,
                  probe |-> probe, expected |-> expected,
                  result |-> ValidationResult(FALSE, <<>>)]

NextValidate == ValidateClip

SpecValidate == InitValidate /\ [][NextValidate]_vars

\* ---------------------------------------------------------------------------
\* engine_adapters/engine_selector.py: failure tracking and smart rotation.
\* lib.fails[e] and lib.succs[e] are _failure_tracker[e] and
\* _success_tracker[e], lists of time.monotonic() readings in seconds.
\* ---------------------------------------------------------------------------
MaxRecords == 4

MaxTicks == 2

window_seconds == 300

min_attempts == 3

\* failure_threshold = 0.5, as numerator and denominator
failure_threshold == <<1, 2>>

RotationChain == <<"runway", "pika", "luma">>

Tracked == {RotationChain[i] : i \in 1..Len(RotationChain)}

rotation_config(enabled) ==
    [enabled |-> enabled, failure_threshold |-> failure_threshold,
     window_seconds |-> window_seconds, min_attempts |-> min_attempts]

RECURSIVE CountAfter(_, _)
CountAfter(ts, cutoff) ==
    IF ts = <<>> THEN 0
    ELSE (IF Head(ts) > cutoff THEN 1 ELSE 0) + CountAfter(Tail(ts), cutoff)

recent_fails(st, engine_name) == CountAfter(st.fails[engine_name], st.now - st.cfg.window_seconds)

recent_total(st, engine_name) ==
    recent_fails(st, engine_name) + CountAfter(st.succs[engine_name], st.now - st.cfg.window_seconds)

rate_reaches(fails, total, threshold) == fails * threshold[2] >= threshold[1] * total

should_rotate_away(st, engine_name) ==
    /\ st.cfg.enabled
    /\ engine_name \in Tracked
    /\ recent_total(st, engine_name) >= st.cfg.min_attempts
    /\ rate_reaches(recent_fails(st, engine_name), recent_total(st, engine_name),
                    st.cfg.failure_threshold)

RECURSIVE find_from(_, _, _)
find_from(st, excluded, i) ==
    IF i > Len(RotationChain) THEN ""
    ELSE IF RotationChain[i] # excluded /\ ~should_rotate_away(st, RotationChain[i])
         THEN RotationChain[i]
         ELSE find_from(st, excluded, i + 1)

find_healthy_alternative(st, excluded) == find_from(st, excluded, 1)

\* Priorities 1-5; "" is None.  No preset preferences and no capability
\* matrix are configured, so priorities 3 and 4 give the style-based engine.
chosen_engine(user_override, scene_style_engine, style_based_engine) ==
    IF user_override # "" THEN user_override
    ELSE IF scene_style_engine # "" THEN scene_style_engine
    ELSE style_based_engine

resolve_engine(st, user_override, scene_style_engine, style_based_engine) ==
    LET engine == chosen_engine(user_override, scene_style_engine, style_based_engine)
        alt == find_healthy_alternative(st, engine)
    IN  IF engine # "local" /\ should_rotate_away(st, engine) /\ alt # "" THEN alt ELSE engine

NoResolve == [engine |-> "", result |-> ""]

Records(st) ==
    LET RECURSIVE Sum(_)
        Sum(S) == IF S = {} THEN 0
                  ELSE LET e == CHOOSE x \in S : TRUE
                       IN  Len(st.fails[e]) + Len(st.succs[e]) + Sum(S \ {e})
    IN  Sum(Tracked)

RecordEngineResult(engine_name, success) ==
    /\ lib.fn = "engine_selector"
    /\ Records(lib) < MaxRecords
    /\ lib' = IF success
              THEN [lib EXCEPT !.succs[engine_name] = Append(@, lib.now), !.last = NoResolve]
              ELSE [lib EXCEPT !.fails[engine_name] = Append(@, lib.now), !.last = NoResolve]
    /\ UNCHANGED <<job, scene, seg, queue, wk, crashes, fleet, em, eng>>

\* time.monotonic() moves on by half a window
Tick ==
    /\ lib.fn = "engine_selector"
    /\ lib.ticks < MaxTicks
    /\ lib' = [lib EXCEPT !.ticks = @ + 1, !.now = @ + (window_seconds \div 2), !.last = NoResolve]
    /\ UNCHANGED <<job, scene, seg, queue, wk, crashes, fleet, em, eng>>

ResolveEngine(user_override, scene_style_engine, style_based_engine) ==
    /\ lib.fn = "engine_selector"
    /\ lib' = [lib EXCEPT !.last =
                   [engine |-> chosen_engine(user_override, scene_style_engine, style_based_engine),
                    result |-> resolve_engine(lib, user_override, scene_style_engine,
                                              style_based_engine)]]
    /\ UNCHANGED <<job, scene, seg, queue, wk, crashes, fleet, em, eng>>

InitSelector ==
    /\ Quiet
    /\ \E enabled \in BOOLEAN :
           lib = [fn |-> "engine_selector", cfg |-> rotation_config(enabled), now |-> 0, ticks |-> 0,
                  fails |-> [e \in Tracked |-> <<>>], succs |-> [e \in Tracked |-> <<>>],
                  last |-> NoResolve]

NextSelector ==
    \/ \E e \in {"runway", "pika"}, success \in BOOLEAN : RecordEngineResult(e, success)
    \/ Tick
    \/ \E o \in {"", "local"}, s \in {"", "pika"}, b \in {"runway", "luma"} : ResolveEngine(o, s, b)

SpecSelector == InitSelector /\ [][NextSelector]_vars

\* ---------------------------------------------------------------------------
\* audio_manager/tts.py: voiceover synthesis with provider fallback.
\* ---------------------------------------------------------------------------
TtsProviders == {"elevenlabs", "openai", "google", "local", "azure"}

WordCounts == {0, 2, 10, 100}

\* What the environment does to one attempt: whether the remote call (API key
\* set, HTTP 2xx, library importable) succeeds, what pyttsx3 does, whether
\* running ffmpeg raises (not installed, 15 s timeout), and what
\* _measure_duration reads.
TtsOutcomes ==
    [remote_ok : BOOLEAN, pyttsx3 : {"ok", "missing", "raises"}, ffmpeg_raises : BOOLEAN,
     measured : {None, Some(1200)}]

TTSResult(success, audio_path, duration_ms, provider) ==
    [success |-> success, audio_path |-> audio_path, duration_ms |-> duration_ms, provider |-> provider]

RECURSIVE Dedup(_, _)
Dedup(ps, seen) ==
    IF ps = <<>> THEN <<>>
    ELSE IF Head(ps) \in seen THEN Dedup(Tail(ps), seen)
    ELSE <<Head(ps)>> \o Dedup(Tail(ps), seen \cup {Head(ps)})

tts_providers(primary, backup) == Dedup(<<primary, backup, "local">>, {})

\* duration_s = max(3, word_count / 2.5), int(duration_s * 1000)
silence_duration_ms(word_count) == MaxOf(3000, word_count * 400)

generate_silence_fallback(word_count, o) ==
    IF o.ffmpeg_raises
    THEN TTSResult(FALSE, "", None, "silence_fallback")
    ELSE TTSResult(TRUE, "voiceover_silence", Some(silence_duration_ms(word_count)), "silence_fallback")

generate_local(word_count, o) ==
    IF o.pyttsx3 = "ok" THEN TTSResult(TRUE, "voiceover_local", o.measured, "local")
    ELSE generate_silence_fallback(word_count, o)

generate_with_provider(provider, word_count, o) ==
    IF provider \in {"elevenlabs", "openai", "google"}
    THEN IF o.remote_ok THEN TTSResult(TRUE, "voiceover_" \o provider, o.measured, provider)
                        ELSE TTSResult(FALSE, "", None, provider)
    ELSE IF provider = "local" THEN generate_local(word_count, o)
    ELSE TTSResult(FALSE, "", None, "")

\* One pass of the provider loop of generate_voiceover, up to the await of
\* the provider's call; the return after the loop is part of the last pass.
TtsAttempt(o) ==
    /\ lib.fn = "generate_voiceover" /\ lib.pc = "trying"
    /\ LET provider == lib.providers[lib.i]
           result == generate_with_provider(provider, lib.words, o)
       IN  lib' = IF result.success
                  THEN [lib EXCEPT !.pc = "returned", !.result = result,
                                   !.tried = Append(@, result.provider)]
                  ELSE IF lib.i = Len(lib.providers)
                  THEN [lib EXCEPT !.pc = "returned", !.tried = Append(@, result.provider),
                                   !.result = TTSResult(FALSE, "", None, "none")]
                  ELSE [lib EXCEPT !.i = @ + 1, !.tried = Append(@, result.provider)]
    /\ UNCHANGED <<job, scene, seg, queue, wk, crashes, fleet, em, eng>>

InitTts ==
    /\ Quiet
    /\ \E primary \in TtsProviders, backup \in TtsProviders, words \in WordCounts :
           lib = [fn |-> "generate_voiceover", pc |-> "trying",
                  providers |-> tts_providers(primary, backup), i |-> 1, words |-> words,
                  tried |-> <<>>, result |-> TTSResult(FALSE, "", None, "")]

NextTts == \E o \in TtsOutcomes : TtsAttempt(o)

SpecTts == InitTts /\ [][NextTts]_vars

\* ---------------------------------------------------------------------------
\* assembler/pipeline.py: assemble_job_v2 gathers the scene clips of a job
\* whose scenes were rendered by _run_job_v2.  lib.rows is the scenes table
\* of the job keyed by scene_id, lib.files the clip files on disk, lib.ids
\* the Scene Graph's scene ids in graph order.
\* ---------------------------------------------------------------------------
MaxAssembleScenes == 3

\* Scene Graphs of n scenes: the ids 1..n, in any order
AssembleGraphs ==
    UNION {{ids \in [1..n -> 1..n] : \A a, b \in 1..n : ids[a] = ids[b] => a = b} :
               n \in 1..MaxAssembleScenes}

RawClip(scene_id) == <<"scenes", scene_id>>

ProcessedClip(scene_id) == <<"processed", scene_id>>

\* create_job_v2: one row per scene, scene_index = position in the graph
SceneRows(ids) ==
    [id \in {ids[i] : i \in 1..Len(ids)} |->
        [scene_index |-> (CHOOSE i \in 1..Len(ids) : ids[i] = id) - 1,
         status |-> "PENDING", asset_path |-> <<>>]]

\* timeline entries in graph order; the last entry has no transition
TimelineEntries(ids) ==
    [k \in 1..Len(ids) |->
        [sceneId |-> ids[k],
         transition |-> IF k < Len(ids) THEN [type |-> IF k % 2 = 1 THEN "cut" ELSE "fade",
                                              duration |-> DEFAULT_TRANSITION_MS]
                        ELSE [type |-> "None", duration |-> 0]]]

RECURSIVE OrderBy(_, _)
OrderBy(rows, key) ==
    IF DOMAIN rows = {} THEN <<>>
    ELSE LET m == CHOOSE x \in DOMAIN rows : \A y \in DOMAIN rows : key[x] <= key[y]
         IN  <<rows[m]>> \o OrderBy([x \in DOMAIN rows \ {m} |-> rows[x]], key)

scene_rows_by_scene_id(rows) == OrderBy(rows, [id \in DOMAIN rows |-> id])

\* db.query(SceneRow).filter(job_id).order_by(SceneRow.scene_index).all()
scene_rows(rows) == OrderBy(rows, [id \in DOMAIN rows |-> rows[id].scene_index])

RECURSIVE scene_clips(_, _)
scene_clips(srs, files) ==
    IF srs = <<>> THEN <<>>
    ELSE (IF Head(srs).asset_path # <<>> /\ Head(srs).asset_path \in files
          THEN <<Head(srs).asset_path>> ELSE <<>>) \o scene_clips(Tail(srs), files)

\* compose_scenes: clip k is followed by transitions[k] when there is one
compose_scenes(clips, transitions) ==
    [k \in 1..Len(clips) |->
        [clip |-> clips[k],
         transition |-> IF k < Len(clips) /\ k <= Len(transitions) THEN transitions[k]
                        ELSE [type |-> "None", duration |-> 0]]]

assemble_job_v2(rows, files, timeline) ==
    compose_scenes(scene_clips(scene_rows(rows), files),
                   [k \in 1..Len(timeline) |-> timeline[k].transition])

rows_all_done(rows) == \A id \in DOMAIN rows : rows[id].status = "DONE"

\* One scene task of render_all_scenes finishes: a successful result comes
\* with its clip file and the callback stores status and asset_path; a task
\* that raised leaves the row alone.
OnSceneComplete(id, r) ==
    /\ lib.fn = "assemble_job_v2" /\ lib.pc = "render"
    /\ id \in DOMAIN lib.rows /\ lib.results[id] = NoResult
    /\ lib' = IF Success(r)
              THEN [lib EXCEPT !.results[id] = r, !.finished = Append(@, id),
                               !.files = @ \cup {RawClip(id)},
                               !.rows[id].status = OnSceneCompleteStatus(r),
                               !.rows[id].asset_path = RawClip(id)]
              ELSE [lib EXCEPT !.results[id] = r, !.finished = Append(@, id)]
    /\ UNCHANGED <<job, scene, seg, queue, wk, crashes, fleet, em, eng>>

\* The clip-processing loop over render_results (graph order), started once
\* the gather has every result.
ProcessClips ==
    /\ lib.fn = "assemble_job_v2" /\ lib.pc \in {"render", "process"}
    /\ \A id \in DOMAIN lib.rows : lib.results[id] # NoResult
    /\ LET k == IF lib.pc = "render" THEN 1 ELSE lib.k
           id == lib.ids[k]
           pc == IF k < Len(lib.ids) THEN "process" ELSE "compose"
       IN  \E processed \in BOOLEAN :
             lib' = IF Success(lib.results[id]) /\ processed
                    THEN [lib EXCEPT !.pc = pc, !.k = k + 1,
                                     !.files = @ \cup {ProcessedClip(id)},
                                     !.rows[id].status = "DONE",
                                     !.rows[id].asset_path = ProcessedClip(id)]
                    ELSE [lib EXCEPT !.pc = pc, !.k = k + 1]
    /\ UNCHANGED <<job, scene, seg, queue, wk, crashes, fleet, em, eng>>

\* if all_scenes_done: assemble_job_v2, whose first stage composes the clips
AssembleJobV2 ==
    /\ lib.fn = "assemble_job_v2" /\ lib.pc = "compose"
    /\ lib' = IF rows_all_done(lib.rows)
              THEN [lib EXCEPT !.pc = "composed",
                               !.composed = assemble_job_v2(lib.rows, lib.files, lib.timeline)]
              ELSE [lib EXCEPT !.pc = "failed"]
    /\ UNCHANGED <<job, scene, seg, queue, wk, crashes, fleet, em, eng>>

InitAssemble ==
    /\ Quiet
    /\ \E ids \in AssembleGraphs :
           lib = [fn |-> "assemble_job_v2", pc |-> "render", k |-> 0, ids |-> ids,
                  timeline |-> TimelineEntries(ids), rows |-> SceneRows(ids),
                  files |-> {}, results |-> [id \in DOMAIN SceneRows(ids) |-> NoResult],
                  finished |-> <<>>, composed |-> <<>>]

NextAssemble ==
    \/ \E id \in 1..MaxAssembleScenes, r \in {"ok", "fallback", "error"} : OnSceneComplete(id, r)
    \/ ProcessClips
    \/ AssembleJobV2

SpecAssemble == InitAssemble /\ [][NextAssemble]_vars

\* ---------------------------------------------------------------------------
\* audio_manager/ducking.py: duck regions from voice-active segments.
\* A voice segment is <<start_ms, end_ms>>.
\* ---------------------------------------------------------------------------
MaxVoiceSegments == 3

pad_ms == 100

VoiceTimes == {0, 50, 100, 300, 400, 700}

VoiceSpans == {<<s, e>> : s \in VoiceTimes, e \in VoiceTimes} \ {<<s, e>> \in VoiceTimes \X VoiceTimes : e < s}

DuckRegion(start_ms, end_ms) == [start_ms |-> start_ms, end_ms |-> end_ms]

\* sorted(voice_segments, key=lambda s: s[0]): stable, by start only
RECURSIVE sorted_by_start(_)
sorted_by_start(segs) ==
    IF segs = <<>> THEN <<>>
    ELSE LET rest == sorted_by_start(SubSeq(segs, 1, Len(segs) - 1))
             x == segs[Len(segs)]
             keep(s) == s[1] <= x[1]
             n == Len(SelectSeq(rest, keep))
         IN  SubSeq(rest, 1, n) \o <<x>> \o SubSeq(rest, n + 1, Len(rest))

overlaps_strictly(padded_start, last_end) == padded_start < last_end

overlaps(padded_start, last_end) == padded_start <= last_end

RECURSIVE merge_padded(_, _)
merge_padded(segs, regions) ==
    IF segs = <<>> THEN regions
    ELSE LET padded_start == MaxOf(0, Head(segs)[1] - pad_ms)
             padded_end == Head(segs)[2] + pad_ms
             n == Len(regions)
         IN  IF n > 0 /\ overlaps(padded_start, regions[n].end_ms)
             THEN merge_padded(Tail(segs),
                      [regions EXCEPT ![n] = DuckRegion(@.start_ms, MaxOf(@.end_ms, padded_end))])
             ELSE merge_padded(Tail(segs), Append(regions, DuckRegion(padded_start, padded_end)))

detect_duck_regions(voice_segments) ==
    IF voice_segments = <<>> THEN <<>>
    ELSE merge_padded(sorted_by_start(voice_segments), <<>>)

DetectDuckRegions ==
    /\ lib.fn = "detect_duck_regions" /\ lib.pc = "called"
    /\ lib' = [lib EXCEPT !.pc = "returned", !.regions = detect_duck_regions(lib.voice_segments)]
    /\ UNCHANGED <<job, scene, seg, queue, wk, crashes, fleet, em, eng>>

InitDucking ==
    /\ Quiet
    /\ \E n \in 0..MaxVoiceSegments :
         \E voice_segments \in [1..n -> VoiceSpans] :
           lib = [fn |-> "detect_duck_regions", pc |-> "called",
                  voice_segments |-> voice_segments, regions |-> <<>>]

NextDucking == DetectDuckRegions

SpecDucking == InitDucking /\ [][NextDucking]_vars

\* ------------------------------------------------------------------------
\* Properties
\* ------------------------------------------------------------------------
TerminalStatuses == {"DONE", "FAILED"}

\* C1: every job in a terminal state (DONE or FAILED) has an output URI, the
\* real result or a template video.
C1_TerminalJobHasOutput ==
    \A j \in Jobs :
        job[j].status \in TerminalStatuses => job[j].output_uri # "None"

\* The assembly step of worker w has run and the run is over.
AssemblyReturned(w) ==
    /\ wk[w].pc \in {"v1_assemble", "v2_assemble"}
    /\ wk'[w].pc = wk[w].phase

\* C2: when the assembler raises (the assembly step ends without the
\* assembled output), the job ends in DONE with the template video as its
\* output, fallback_used = true and fallback_reason set.
C2_AssemblyFailureEndsDoneWithTemplate ==
    [][\A w \in Workers :
         (AssemblyReturned(w) /\ job'[wk[w].job_id].output_uri # "output")
            => /\ job'[wk[w].job_id].status = "DONE"
               /\ job'[wk[w].job_id].output_uri = "template"
               /\ job'[wk[w].job_id].fallback_used
               /\ job'[wk[w].job_id].fallback_reason = "set"]_vars

NonTerminalStatuses ==
    {"PLANNING_SCENES", "BUILDING_TIMELINE", "RENDERING_SCENES", "COMPOSING",
     "AUDIO_ASSEMBLY", "FINALIZING",
     "PLANNING", "RENDERING_SEGMENTS", "ASSEMBLING"}

\* C4: when a worker starts, its startup scan finds every job whose persisted
\* status is non-terminal, to run it again.
C4_ScanFindsEveryInterruptedJob ==
    [][\A w \in Workers :
         (wk[w].pc = "down" /\ wk'[w].pc = "resume")
            => \A j \in Jobs :
                 job[j].status \in NonTerminalStatuses
                    => \E n \in 1..Len(wk'[w].stuck) : wk'[w].stuck[n] = j]_vars

\* C5: in a run of a job, a scene whose record was DONE or FALLBACK when the
\* run began is not dispatched to the Engine Manager again.
C5_FinishedScenesNotRedispatched ==
    \A w \in Workers :
        wk[w].pc = "v2_render" =>
            \A s \in wk[w].tasks : wk[w].seen[s] \notin {"DONE", "FALLBACK"}

\* Position of a status in the lifecycle QUEUED -> PLANNING_SCENES ->
\* BUILDING_TIMELINE -> RENDERING_SCENES -> COMPOSING -> AUDIO_ASSEMBLY ->
\* FINALIZING -> DONE; a legacy status has the position of the stage it names.
JobRank(status) ==
    CASE status = "QUEUED" -> 0
      [] status \in {"PLANNING_SCENES", "PLANNING"} -> 1
      [] status = "BUILDING_TIMELINE" -> 2
      [] status \in {"RENDERING_SCENES", "RENDERING_SEGMENTS"} -> 3
      [] status \in {"COMPOSING", "ASSEMBLING"} -> 4
      [] status = "AUDIO_ASSEMBLY" -> 5
      [] status = "FINALIZING" -> 6
      [] status = "DONE" -> 7
      [] OTHER -> -1

\* C6: a job's status never moves to an earlier state of the lifecycle.
C6_StatusNeverMovesBack ==
    [][\A j \in Jobs :
         (JobRank(job[j].status) >= 0 /\ JobRank(job'[j].status) >= 0)
            => JobRank(job'[j].status) >= JobRank(job[j].status)]_vars

\* C7: FAILED is absorbing: a job whose status is FAILED keeps it.
C7_FailedIsAbsorbing ==
    [][\A j \in Jobs :
         job[j].status = "FAILED" => job'[j].status = "FAILED"]_vars

\* C8: a scene-graph job enters DONE only from FINALIZING (which is entered
\* from AUDIO_ASSEMBLY, which is entered from COMPOSING).
C8_DoneOnlyThroughEveryState ==
    [][\A j \in Jobs :
         (job[j].version = 2 /\ job'[j].status = "DONE" /\ job[j].status # "DONE")
            => job[j].status = "FINALIZING"]_vars

\* C9: job.progress_pct never decreases.
C9_ProgressNeverDecreases ==
    [][\A j \in Jobs : job'[j].progress_pct >= job[j].progress_pct]_vars

SceneTerminal == {"DONE", "FALLBACK", "FAILED"}

\* C10: a scene record in DONE, FALLBACK or FAILED is never moved to another
\* status, and a terminal status is entered only from RENDERING.
C10_SceneLifecycle ==
    [][\A j \in Jobs, s \in SceneIds :
         scene'[j][s] # scene[j][s] =>
            /\ scene[j][s] \notin SceneTerminal
            /\ scene'[j][s] \in SceneTerminal => scene[j][s] = "RENDERING"]_vars

\* The job worker w is running (0 when it runs none).
RunningJob(w) == wk[w].job_id

\* C11: no two workers run the same job at the same time.
C11_NoTwoWorkersRunSameJob ==
    \A w1 \in Workers, w2 \in Workers :
        (w1 # w2 /\ RunningJob(w1) # 0) => RunningJob(w1) # RunningJob(w2)

\* The scenes whose fallback chain is executing (semaphore held, an engine
\* call awaited).
Executing == {i \in 1..em.scenes : em.task[i].pc \in {"level1", "retry", "level2"}}

\* C12: during render_all_scenes at most max_concurrent fallback chains are
\* executing, and the permits held and free add up to max_concurrent.
C12_AtMostMaxConcurrentChains ==
    em.pc = "gather" =>
        /\ Cardinality(Executing) <= em.max_concurrent
        /\ em.permits = em.max_concurrent - Cardinality(Executing)

\* C12 witness: every permit is held and another scene is waiting for one.
C12_SceneWaitsForPermit ==
    /\ em.pc = "gather"
    /\ Cardinality(Executing) = em.max_concurrent
    /\ \E i \in 1..em.scenes : em.task[i].pc = "wait"

\* C13: render_all_scenes returns exactly one result per scene and the i-th
\* result belongs to the i-th scene, whatever the order of completion.
C13_ResultsInSceneOrder ==
    em.pc = "returned" =>
        /\ Len(em.final_results) = em.scenes
        /\ \A i \in 1..em.scenes : em.final_results[i].scene_id = i

\* C13 witness: the call returned and a later scene's chain completed before
\* an earlier scene's.
C13_CompletedOutOfOrder ==
    /\ em.pc = "returned"
    /\ \E m \in 1..Len(em.completed), n \in 1..Len(em.completed) :
         m < n /\ em.completed[m] > em.completed[n]

\* C14: an exception raised inside one scene's task does not leave
\* render_all_scenes: the call returns, that scene's result is
\* SceneRenderResult(success=false, error), and every other scene's result is
\* the one its own task returned.
C14_TaskExceptionBecomesFailedResult ==
    /\ em.pc \in {"idle", "gather", "returned"}
    /\ em.pc = "returned" =>
         \A i \in 1..em.scenes :
            /\ em.task[i].pc = "raised" =>
                 /\ ~em.final_results[i].success
                 /\ em.final_results[i].error = "set"
                 /\ em.final_results[i].scene_id = i
            /\ em.task[i].pc = "returned" =>
                 em.final_results[i] = em.task[i].result

\* C14 witness: the call returned after one scene's task raised and another
\* scene's task returned a successful result.
C14_OneRaisedOneReturned ==
    /\ em.pc = "returned"
    /\ \E i \in 1..em.scenes, k \in 1..em.scenes :
         /\ em.task[i].pc = "raised"
         /\ em.task[k].pc = "returned"
         /\ em.final_results[k].success

\* The positions at which a chain awaits an engine call.
Awaiting == {"level1", "retry", "level2"}

\* The engine whose call the chain of scene i is awaiting.
InFlight(i) ==
    IF em.task[i].pc = "level2" THEN Head(em.task[i].alternates)
    ELSE em.primary[i]

\* The chain of scene i after the awaited call returned with outcome (for a
\* chain that has not started: after its start).
ChainStep(i, outcome, rendered, called) ==
    CASE em.task[i].pc = "level1" ->
           level1_result(em.task[i], i, em.keys, em.primary[i],
                         outcome, rendered, called)
      [] em.task[i].pc = "retry" ->
           retry_result(em.task[i], i, em.keys, em.primary[i],
                        outcome, rendered, called)
      [] em.task[i].pc = "level2" ->
           level2_result(em.task[i], i, outcome, rendered, called)
      [] em.task[i].pc = "wait" ->
           chain_start(em.task[i], i, em.keys, em.primary[i], rendered, called)

\* C15: the attempts of one scene's chain are strictly sequential: the one
\* call in flight is the latest attempt started; when it returns a valid clip
\* the chain ends with that clip and no later attempt starts; when it returns
\* anything else, at most one next attempt is started.
C15_AttemptsStrictlySequential ==
    \A i \in 1..em.scenes :
        em.task[i].pc \in Awaiting =>
            LET t == em.task[i] IN
            /\ t.engines_tried # <<>>
            /\ t.engines_tried[Len(t.engines_tried)] = InFlight(i)
            /\ \A rendered \in BOOLEAN, called \in BOOLEAN :
                 ChainStep(i, "valid", rendered, called) =
                    render_one_complete(t,
                        SceneRenderResult(i, TRUE, InFlight(i),
                                          t.pc = "level2", "None"),
                        called)
            /\ \A outcome \in GenerateOutcomes \ {"valid"},
                  rendered \in BOOLEAN, called \in BOOLEAN :
                 LET u == ChainStep(i, outcome, rendered, called) IN
                 u.pc \in Awaiting =>
                    \/ u.pc = "retry" /\ u.engines_tried = t.engines_tried
                    \/ /\ u.pc = "level2"
                       /\ u.engines_tried =
                            Append(t.engines_tried, Head(u.alternates))

\* C15 witness: a chain is awaiting its third attempt (primary, retry or first
\* alternate, then the next alternate).
C15_ThirdAttemptInFlight ==
    \E i \in 1..em.scenes :
        /\ em.task[i].pc = "level2"
        /\ Len(em.task[i].engines_tried) + (IF em.task[i].rephrased THEN 1 ELSE 0) >= 3

\* C16: the primary E is retried after its first call exactly when that call
\* reported a moderation rejection, with the prompt rephrased; the retry is
\* never followed by another call of E, so E is called at most twice.
C16_RetryOnceAfterModeration ==
    \A i \in 1..em.scenes :
        LET t == em.task[i] IN
        /\ t.pc = "level1" =>
             /\ ~t.rephrased
             /\ t.engines_tried = <<em.primary[i]>>
             /\ \A outcome \in GenerateOutcomes,
                   rendered \in BOOLEAN, called \in BOOLEAN :
                  LET u == ChainStep(i, outcome, rendered, called) IN
                  /\ u.pc = "retry" <=> outcome = "moderation"
                  /\ u.pc = "retry" => u.rephrased
                  /\ u.pc # "level1"
        /\ t.pc = "retry" =>
             /\ t.rephrased
             /\ t.engines_tried = <<em.primary[i]>>
             /\ \A outcome \in GenerateOutcomes,
                   rendered \in BOOLEAN, called \in BOOLEAN :
                  ChainStep(i, outcome, rendered, called).pc \notin {"level1", "retry"}
        /\ t.pc = "level2" =>
             /\ InFlight(i) # em.primary[i]
             /\ \A k \in 1..Len(t.engines_tried) :
                  t.engines_tried[k] = em.primary[i] => k = 1
             /\ \A outcome \in GenerateOutcomes,
                   rendered \in BOOLEAN, called \in BOOLEAN :
                  ChainStep(i, outcome, rendered, called).pc \notin {"level1", "retry"}

\* C16 witness: the primary was called, rejected for moderation, retried with
\* the rephrased prompt, and the chain is now at Level 2.
C16_RetriedThenLevel2 ==
    \E i \in 1..em.scenes :
        /\ em.task[i].pc = "level2"
        /\ em.task[i].rephrased
        /\ em.task[i].engines_tried[1] = em.primary[i]

\* Position of an external engine in the order runway, pika, luma.
Rank(e) == CHOOSE k \in 1..Len(FALLBACK_ORDER) : FALLBACK_ORDER[k] = e

\* The engines Level 2 of scene i has to try: the external engines other than
\* the primary whose API key is configured.
Expected(i) == {e \in ExternalEngines : e # em.primary[i] /\ e \in em.keys}

\* The engines Level 2 of scene i has called so far.
TriedAtLevel2(i) ==
    {em.task[i].engines_tried[k] : k \in 1..Len(em.task[i].engines_tried)}
        \ {em.primary[i]}

\* The rank of the alternate in flight (0 before Level 2).
Current(i) == IF em.task[i].pc = "level2" THEN Rank(InFlight(i)) ELSE 0

\* C17: Level 2 calls exactly the configured external engines other than the
\* primary, in the order runway, pika, luma, each at most once, never the
\* primary; the local renderer runs only after all of them have failed.
C17_Level2TriesConfiguredAlternatesInOrder ==
    \A i \in 1..em.scenes :
        em.primary[i] # "local" =>
            LET t == em.task[i] IN
            /\ t.pc = "level2" =>
                 /\ InFlight(i) \in Expected(i)
                 /\ TriedAtLevel2(i) =
                      {e \in Expected(i) : Rank(e) <= Rank(InFlight(i))}
                 /\ \A k \in 1..Len(t.engines_tried), m \in 1..Len(t.engines_tried) :
                      (k < m /\ t.engines_tried[k] # em.primary[i])
                         => Rank(t.engines_tried[k]) < Rank(t.engines_tried[m])
            /\ t.pc \in Awaiting \cup {"wait"} =>
                 \A outcome \in GenerateOutcomes :
                    LET u == ChainStep(i, outcome, TRUE, TRUE)
                        rest == {e \in Expected(i) : Rank(e) > Current(i)}
                    IN /\ u.pc = "level2" =>
                            /\ Head(u.alternates) \in rest
                            /\ \A e \in rest : Rank(Head(u.alternates)) <= Rank(e)
                            /\ t.pc \in Awaiting => outcome # "valid"
                       /\ (u.pc = "returned" /\ u.result.engine_used = "local") =>
                            /\ rest = {}
                            /\ t.pc \in Awaiting => outcome # "valid"

\* C17 witness: the chain is awaiting the second of two configured alternates.
C17_SecondAlternateInFlight ==
    \E i \in 1..em.scenes :
        /\ em.task[i].pc = "level2"
        /\ Cardinality(Expected(i)) = 2
        /\ Cardinality(TriedAtLevel2(i)) = 2

\* C18: a Level 1 or Level 2 clip that fails validation is not the scene's
\* result: the chain goes on from it as it goes on from an engine error, and
\* a chain ends with an external engine's clip only when that clip validated.
C18_InvalidClipFallsThroughLikeError ==
    \A i \in 1..em.scenes :
        em.task[i].pc \in Awaiting =>
            /\ \A rendered \in BOOLEAN, called \in BOOLEAN :
                 ChainStep(i, "invalid", rendered, called) =
                    ChainStep(i, "error", rendered, called)
            /\ \A outcome \in GenerateOutcomes :
                 LET u == ChainStep(i, outcome, TRUE, TRUE) IN
                 (u.pc = "returned" /\ u.result.engine_used \in ExternalEngines)
                    => outcome = "valid"

\* C18 witness: a scene whose primary was called without giving an accepted
\* clip was rescued by an alternate whose clip validated.
C18_RescuedByAlternate ==
    /\ em.pc = "returned"
    /\ \E i \in 1..em.scenes :
         /\ em.primary[i] \in em.keys
         /\ em.final_results[i].success
         /\ em.final_results[i].fallback_used
         /\ em.final_results[i].engine_used \in ExternalEngines

C20_LocalSelectionRunsOnlyLocal ==
    \A i \in 1..em.scenes :
        em.primary[i] = "local" =>
            /\ em.task[i].pc \in {"wait"} \cup TaskFinished
            /\ em.task[i].engines_tried = <<>>
            /\ em.task[i].pc = "wait" =>
                 \A rendered \in BOOLEAN, called \in BOOLEAN :
                    ChainStep(i, "valid", rendered, called).pc \in TaskFinished
            /\ em.task[i].pc = "returned" =>
                 em.task[i].result = SceneRenderResult(i, TRUE, "local", FALSE, "None")

\* C20 witness: every external engine is configured, and a scene selected for
\* "local" got its clip from the local renderer.
C20_LocalSceneWithKeysConfigured ==
    /\ em.pc = "returned"
    /\ em.keys = ExternalEngines
    /\ \E i \in 1..em.scenes :
         /\ em.primary[i] = "local"
         /\ em.final_results[i].success
         /\ em.final_results[i].engine_used = "local"

\* The error codes of a failed generate.
ErrorCodes ==
    {"missing_api_key", "rate_limited", "moderation_rejection", "timeout",
     "api_error"}

\* C21: generate never raises: whatever fails (no API key, rate limit,
\* moderation rejection, timeout, HTTP or transport error, download failure),
\* the call returns an EngineResult, with success = false and an error code.
C21_GenerateNeverRaises ==
    /\ eng.pc # "raised"
    /\ eng.pc = "returned" =>
         \/ eng.result.success /\ eng.result.error_code = "None"
         \/ /\ ~eng.result.success
            /\ eng.result.error_code \in ErrorCodes
            /\ eng.result.moderation_flagged
                 <=> eng.result.error_code = "moderation_rejection"
            /\ eng.result.rate_limited <=> eng.result.error_code = "rate_limited"

\* C21 witness: the task succeeded at the provider but the download failed,
\* and generate returned an api_error result.
C21_DownloadFailureReturned ==
    /\ eng.pc = "returned"
    /\ eng.polled_at > 0
    /\ ~eng.result.success
    /\ eng.result.error_code = "api_error"

\* C22: one deadline of timeout_seconds covers submit and poll together: the
\* poll loop never runs past t0 + timeout_seconds, and a call whose submit
\* and poll took longer than timeout_seconds returns error_code = timeout.
C22_DeadlineCoversSubmitAndPoll ==
    /\ eng.pc = "poll" => eng.deadline <= eng.t0 + timeout_seconds
    /\ eng.polled_at - eng.t0 > timeout_seconds =>
         (eng.pc = "returned" /\ eng.result.error_code = "timeout")

\* C23: a transition requested for a job or a scene whose row is missing is
\* logged and skipped: it raises nothing, and no job, scene or segment row
\* is written or changed.
C23_MissingRowTransitionSkipped ==
    [][(lib'.fn # "-" /\ ~lib'.found) =>
          /\ lib'.ends = "logged"
          /\ job' = job
          /\ scene' = scene
          /\ seg' = seg]_vars

\* C23 witness: a scene transition did not find its row while a job row
\* exists that a transition has already changed.
C23_MissingSceneRowBesideLiveJob ==
    /\ lib.fn = "transition_scene"
    /\ ~lib.found
    /\ \E j \in StoreIds : job[j].version # 0 /\ job[j].status = "FAILED"

\* C24: for every input from which the planner derives at least one scene,
\* plan_scenes returns a Scene Graph whose durations sum to at most
\* 60 000 ms and are each at least 1 000 ms.
C24_PlanWithinCapAndFloor ==
    (/\ lib.fn = "plan_scenes"
     /\ lib.pc = "done"
     /\ lib.result.ends # "PlanningError"
     /\ lib.prompt.kind = "text" => lib.prompt.parts # <<>>) =>
        /\ lib.result.ends = "returned"
        /\ SumSeq([i \in 1..Len(lib.result.scenes) |->
                      lib.result.scenes[i].duration]) <= 60000
        /\ \A i \in 1..Len(lib.result.scenes) :
              lib.result.scenes[i].duration >= 1000

\* C25: a planner call that does not return a Scene Graph fails with
\* PlanningError and with no other error, and POST /api/v2/jobs answers such
\* a failure with HTTP 400.
C25_PlannerFailsOnlyWithPlanningError ==
    (/\ lib.fn = "plan_scenes"
     /\ lib.pc \in {"done", "responded"}
     /\ lib.result.ends # "returned") =>
        /\ lib.result.ends = "PlanningError"
        /\ lib.pc = "responded" => lib.status_code = 400

\* The Timeline that a build_timeline call returned.
Built == lib.fn = "build_timeline" /\ lib.pc = "done" /\ lib.result.ends = "returned"

\* C26: the Timeline built from a valid Scene Graph of N scenes has
\* totalDuration <= 60 000 ms, and the sum of the scene durations differs from
\* totalDuration by at most (N - 1) * 500 ms.
C26_TotalDurationWithinTransitions ==
    Built =>
        LET N == Len(lib.scenes)
            sum == SumSeq([i \in 1..N |-> lib.scenes[i].duration])
            diff == sum - lib.result.totalDuration
        IN  /\ lib.result.totalDuration <= 60000
            /\ diff <= (N - 1) * 500
            /\ -diff <= (N - 1) * 500

\* C26 witness: a built Timeline of several scenes in which every transition
\* overlaps, so the difference is exactly (N - 1) * 500.
C26_EveryTransitionOverlaps ==
    /\ Built
    /\ Len(lib.scenes) >= 2
    /\ SumSeq([i \in 1..Len(lib.scenes) |-> lib.scenes[i].duration])
           - lib.result.totalDuration = (Len(lib.scenes) - 1) * 500

\* C27: build_timeline returns a Timeline for every valid Scene Graph, and
\* in it the starts do not decrease, every entry ends after it starts, and an
\* entry starts no earlier than the end of the entry before it minus that
\* entry's transition duration.
C27_TimelineBuiltAndMonotone ==
    (lib.fn = "build_timeline" /\ lib.pc = "done") =>
        /\ lib.result.ends = "returned"
        /\ \A i \in 1..Len(lib.result.timeline) :
              lib.result.timeline[i].end > lib.result.timeline[i].start
        /\ \A i \in 1..(Len(lib.result.timeline) - 1) :
              /\ lib.result.timeline[i].start <= lib.result.timeline[i + 1].start
              /\ lib.result.timeline[i + 1].start >=
                     lib.result.timeline[i].end
                         - lib.result.timeline[i].transition.duration

\* C27 witness: a built Timeline in which a cut is followed by a fade.
C27_CutThenFade ==
    /\ Built
    /\ Len(lib.result.timeline) = 3
    /\ lib.result.timeline[1].transition.type = "cut"
    /\ lib.result.timeline[2].transition.type = "fade"
    /\ lib.result.timeline[2].start = lib.result.timeline[1].end
    /\ lib.result.timeline[3].start < lib.result.timeline[2].end

\* C28: every caption track placed for scene k lies within 200 ms of the
\* timeline entry of scene k: e.start - 200 <= c.start < c.end <= e.end + 200.
C28_CaptionWithinSceneTolerance ==
    (lib.fn = "build_timeline" /\ lib.pc = "done") =>
        \A c \in lib.result.captions :
            \A i \in 1..Len(lib.result.timeline) :
                lib.result.timeline[i].sceneId = c.sceneId =>
                    /\ lib.result.timeline[i].start - 200 <= c.start
                    /\ c.start < c.end
                    /\ c.end <= lib.result.timeline[i].end + 200

\* C28 witness: a built Timeline with a caption on a scene that starts inside
\* the transition of the scene before it.
C28_CaptionOnOverlappedScene ==
    /\ Built
    /\ \E c \in lib.result.captions :
          /\ c.sceneId = 2
          /\ lib.result.timeline[2].start < lib.result.timeline[1].end
          /\ c.start = lib.result.timeline[2].start + 200

\* C29: every caption of the even-time split carries the id of a scene and
\* lies within that scene: scene.start <= caption.start < caption.end <=
\* scene.end.
C29_EvenSplitCaptionsWithinScene ==
    (lib.fn = "_even_time_split" /\ lib.pc = "done") =>
        \A c \in lib.captions :
            \E k \in 1..Len(lib.scene_boundaries) :
                /\ lib.scene_boundaries[k].scene_id = c.scene_id
                /\ lib.scene_boundaries[k].start <= c.start_ms
                /\ c.start_ms < c.end_ms
                /\ c.end_ms <= lib.scene_boundaries[k].end

\* C30: with brand_safe = true the transition resolved for assembly is a cut
\* or a fade, and a requested transition that is neither is rewritten to
\* fade.
C30_BrandSafeTransitionIsCutOrFade ==
    /\ (lib.fn = "transition" /\ lib.pc = "resolved" /\ lib.brand_safe) =>
          /\ lib.spec.t_type \in {"cut", "fade"}
          /\ lib.spec.xfade_name = "fade"
    /\ (lib.fn = "transition" /\ lib.pc = "enforced" /\ lib.brand_safe) =>
          Lower(lib.enforced) \in {"cut", "fade"}

C32_FinalPromptSanitized ==
    (lib.fn = "build_prompt" /\ lib.pc = "built") =>
        lib.prompt =
            str_strip(truncate(
                sanitize_prompt(lib.blocklist,
                    raw_prompt(lib.content, lib.style, <<>>, lib.brand_safe)),
                lib.max_len))

\* C33: validate_clip reports valid=true only if the file exists and is
\* non-empty, the probe succeeded and reported a video stream, the probed
\* duration lies within 20% of the requested duration, the frame is at least
\* 720x1280 and the file is at most 200 MB.
C33_ValidOnlyIfFiveChecks ==
    (lib.fn = "validate_clip" /\ lib.pc = "returned" /\ lib.result.valid) =>
        /\ lib.exists /\ lib.file_size > 0
        /\ lib.probe.ok /\ lib.probe.video
        /\ lib.probe.duration # None
        /\ Val(lib.probe.duration) * 10 >= lib.expected * 8
        /\ Val(lib.probe.duration) * 10 <= lib.expected * 12
        /\ lib.probe.width # None /\ lib.probe.height # None
        /\ Val(lib.probe.width) >= 720 /\ Val(lib.probe.height) >= 1280
        /\ lib.file_size <= 200 * 1024 * 1024

\* C34: resolve_engine returns an alternative for the chosen engine only when
\* rotation is enabled, the engine's sample count within the window meets
\* min_attempts, and its failure rate within the window is strictly above
\* failure_threshold.
C34_RotationOnlyAboveThreshold ==
    (lib.fn = "engine_selector" /\ lib.last.result # lib.last.engine) =>
        /\ lib.cfg.enabled
        /\ recent_total(lib, lib.last.engine) >= lib.cfg.min_attempts
        /\ recent_fails(lib, lib.last.engine) * lib.cfg.failure_threshold[2]
               > lib.cfg.failure_threshold[1] * recent_total(lib, lib.last.engine)

\* C35: generate_voiceover always returns a successful result with an audio
\* track: when every provider before it failed, the silence fallback still
\* succeeds with a silent track.
C35_VoiceoverAlwaysSucceeds ==
    (lib.fn = "generate_voiceover" /\ lib.pc = "returned") =>
        lib.result.success /\ lib.result.audio_path # ""

\* C36: the composed clips are the scenes' clips in Scene Graph order, one
\* per timeline entry, whatever the order in which the scenes finished: the
\* k-th composed clip is the clip of the k-th scene, followed by the k-th
\* entry's transition.
C36_ComposedInGraphOrder ==
    (lib.fn = "assemble_job_v2" /\ lib.pc = "composed") =>
        /\ Len(lib.composed) = Len(lib.timeline)
        /\ \A k \in 1..Len(lib.composed) :
             /\ lib.composed[k].clip[2] = lib.ids[k]
             /\ lib.composed[k].clip = lib.rows[lib.ids[k]].asset_path
             /\ lib.composed[k].transition = lib.timeline[k].transition

\* C36 witness: three scenes whose ids are not ascending finished in the
\* reverse of graph order and were composed.
C36_ReverseFinishComposed ==
    /\ lib.fn = "assemble_job_v2" /\ lib.pc = "composed"
    /\ lib.ids = <<2, 3, 1>> /\ lib.finished = <<1, 3, 2>>
    /\ lib.timeline[1].transition.type = "cut" /\ lib.timeline[2].transition.type = "fade"

\* C37: get_incomplete_segments returns exactly the job's PENDING, RUNNING
\* and FAILED segments in index order, and a run of a legacy job starts
\* rendering a segment only while its row is in one of these statuses: a
\* segment that is DONE is not rendered again.
C37_OnlyIncompleteSegmentsRendered ==
    [][\A w \in Workers :
         /\ (wk[w].pc = "v1_rendering" /\ wk'[w].pc \in {"v1_seg_running", "v1_assembling"}) =>
               LET inc == wk'[w].incomplete
               IN  /\ {inc[n] : n \in 1..Len(inc)} =
                          {i \in SegIdx : seg[wk[w].job_id][i] \in {"PENDING", "RUNNING", "FAILED"}}
                   /\ \A a, b \in 1..Len(inc) : a < b => inc[a] < inc[b]
         /\ (wk[w].pc = "v1_seg_running" /\ wk'[w].pc = "v1_seg_render") =>
               seg[wk[w].job_id][Head(wk[w].incomplete)] \in {"PENDING", "RUNNING", "FAILED"}
      ]_vars

\* C38: the regions detect_duck_regions returns are sorted by start and
\* pairwise apart (overlapping or touching padded spans are one region),
\* every voice span padded by 100 ms (start clamped at 0) lies inside one
\* region, and every region starts and ends with a padded span.
C38_DuckRegionsSortedDisjointCovering ==
    (lib.fn = "detect_duck_regions" /\ lib.pc = "returned") =>
        LET r == lib.regions
            v == lib.voice_segments
            ps(k) == IF v[k][1] - 100 > 0 THEN v[k][1] - 100 ELSE 0
            pe(k) == v[k][2] + 100
        IN  /\ \A a, b \in 1..Len(r) : a < b => r[a].end_ms < r[b].start_ms
            /\ \A a \in 1..Len(r) : r[a].start_ms <= r[a].end_ms
            /\ \A k \in 1..Len(v) : \E a \in 1..Len(r) : r[a].start_ms <= ps(k) /\ pe(k) <= r[a].end_ms
            /\ \A a \in 1..Len(r) : /\ \E k \in 1..Len(v) : ps(k) = r[a].start_ms
                                    /\ \E k \in 1..Len(v) : pe(k) = r[a].end_ms

\* C38 witness: two voice spans given out of order whose padded spans touch
\* at 200 ms come back as one region, next to a separate third one.
C38_TouchingSpansMerged ==
    /\ lib.fn = "detect_duck_regions" /\ lib.pc = "returned"
    /\ lib.voice_segments = <<<<300, 400>>, <<700, 700>>, <<0, 100>>>>
    /\ lib.regions = <<DuckRegion(0, 500), DuckRegion(600, 800)>>

\* C39: when the runner decides between COMPOSING and FAILED after the
\* clip-processing loop, a job whose scene rows are all DONE or FALLBACK
\* goes to COMPOSING; it is failed there only if some scene is FAILED or
\* never finished.
C39_SuccessfulScenesGoToComposing ==
    [][\A w \in Workers :
         (/\ wk[w].pc = "v2_compose"
          /\ job[wk[w].job_id].status # "FAILED"
          /\ job'[wk[w].job_id].status = "FAILED") =>
             \E s \in SceneIds : scene[wk[w].job_id][s] \notin {"DONE", "FALLBACK"}
      ]_vars

\* C40: a scene-graph job in a terminal state has no scene row that is still
\* PENDING or RENDERING.
C40_NoOpenSceneInTerminalJob ==
    \A j \in Jobs :
        (job[j].version = 2 /\ job[j].status \in {"DONE", "FAILED"}) =>
            \A s \in SceneIds : scene[j][s] \notin {"PENDING", "RENDERING"}

====
